---------------------------- MODULE Spec2Model ----------------------------
(***************************************************************************)
(* Model of entra-change-tracker:                                          *)
(*   src/python/lib/browser_helpers.py  the virtualized-list scraper       *)
(*   src/python/lib/scraper.py          scrape_tab, scrape_entra_portal    *)
(*   src/python/lib/sharepoint.py       the list upload and its caches     *)
(*   src/python/entra.py, lib/config.py the run                            *)
(*                                                                         *)
(* The browser and the remote services are the environment.  Every await   *)
(* on the page and every Graph call is a point where the environment       *)
(* answers, and the answer is drawn from a small set.                      *)
(*   Spec         one walk of scrape_details_list over a list whose        *)
(*                rendered rows, scroll extent and timing the browser      *)
(*                chooses                                                  *)
(*   SpecDetails  one invocation of extract_row_details                    *)
(*   SpecViews    the walks of the two views, one after the other          *)
(*   SpecTab      one invocation of scrape_tab                             *)
(*   SpecRun      main, from load_configuration to the exit                *)
(*   SpecPair     two walks of one list, without and with details          *)
(*   SpecFrames   one invocation of find_correct_iframe                    *)
(*   SpecStatic   one walk over a static list in a fixed container         *)
(*   SpecRetry    the retry loop for one row                               *)
(*   SpecPortal   scrape_entra_portal, step by step                        *)
(*   SpecInsert   insert_into_sharepoint_list, called twice                *)
(*   SpecCache    the identifier caches of sharepoint.py                   *)
(***************************************************************************)
EXTENDS Integers, Sequences, FiniteSets, TLC

VARIABLES
    pc,               \* position of scrape_details_list
    processed_rows,   \* the accumulator (l.534): sequence of row objects
    seen_indices,     \* l.535
    idle_passes,      \* l.537
    new_rows_found,   \* l.562
    remaining,        \* locators of visible_rows (l.561) not yet iterated
    cur,              \* the row in the retry loop (l.597-608), or NoRow
    elapsed,          \* (time.time() - start_time) * 1000, saturating
    scrollTop,        \* container.scrollTop
    outcome,          \* "running" | "timeout" | "stabilized" | "raised"
    returned,         \* the list returned at l.656 (<<>> until then)
    extract_details,  \* the parameter of scrape_details_list
    ghost,            \* observation record, read by the properties only
    env,              \* SpecDetails: the browser's behaviour in one invocation
    call,             \* SpecDetails: the finished invocation, or NoCall
    pair,             \* SpecPair: two walks of one list, without and with details
    run               \* the state of the callers and of the other components

vars == <<pc, processed_rows, seen_indices, idle_passes, new_rows_found,
          remaining, cur, elapsed, scrollTop, outcome, returned,
          extract_details, ghost, env, call, pair, run>>

walkVars == <<pc, processed_rows, seen_indices, idle_passes, new_rows_found,
              remaining, cur, elapsed, scrollTop, outcome, returned,
              extract_details, ghost>>

-----------------------------------------------------------------------------
(* Bounds of the model and configuration values (config.json is an input). *)

NumIndices == 2          \* row indices the list can present: 0 .. NumIndices-1
MaxVisible == 2          \* rows rendered at once (length of visible_rows)
MaxScrollPx == 3         \* largest scrollHeight - clientHeight the browser reports
MaxRetryAttempts == 2    \* scraperConfig['maxRetryAttempts']
MaxIdlePasses == 2       \* scraperConfig['maxIdlePasses']
TotalTimeoutMs == 3      \* scraperConfig['totalTimeoutMs'], in logical ticks
PassDelayMs == 1         \* scraperConfig['passDelayMs']: the logical tick
ScrollStepPx == 2        \* scraperConfig['scrollStepPx']
MaxAttemptMs == 1        \* longest one extract_row_details call, in ticks
BottomTolerancePx == 2   \* l.630: scrollTop >= maxScroll - 2

Indices == 0 .. (NumIndices - 1)

Min(a, b) == IF a < b THEN a ELSE b

-----------------------------------------------------------------------------
(* Text values.  str.strip() is modelled on the values the model uses.     *)

RAISE == "<raise>"

Strip(s) == CASE s = " "   -> ""
              [] s = " d " -> "d"
              [] s = " o " -> "o"
              [] OTHER     -> s

Strings == {"", " ", "d", " d ", "o", " o ", "u"}

EmptyDetails == [url |-> "", description |-> "", overview |-> ""]

-----------------------------------------------------------------------------
(* The browser's behaviour during one extract_row_details invocation.      *)
(* Each field is the answer the browser gives IF the step is reached.      *)
(*   checked    aria-checked of the row's selection control is 'true'      *)
(*   openFail   the step of open_details_pane that raises, or "none"       *)
(*   frame      find_correct_iframe: a frame, None, or an exception        *)
(*   overview, url, description                                            *)
(*              what extract_overview / extract_url / extract_description  *)
(*              return ('' also stands for a failure they contain), or     *)
(*              RAISE when the exception escapes them (get_text_patterns   *)
(*              is called outside their try)                               *)
(*   closeBtn   the close affordance: "visible", "absent", or "error"      *)
(*              (count()/is_visible() raises)                              *)
(*   click      the first close gesture: "ok" or "raise"                   *)
(*   removed1   the wait after the first gesture saw the surface removed   *)
(*   escape     keyboard.press('Escape'): "ok" or "raise"                  *)
(*   removed2   the wait after Escape saw the surface removed              *)

DetailEnv ==
    [ checked     : BOOLEAN,
      openFail    : {"none", "attr", "uncheck", "select", "wait"},
      frame       : {"frame", "none", "raise"},
      overview    : {"", " o ", RAISE},
      url         : {"", "u", RAISE},
      description : {"", " ", " d ", RAISE},
      closeBtn    : {"visible", "absent", "error"},
      click       : {"ok", "raise"},
      removed1    : BOOLEAN,
      escape      : {"ok", "raise"},
      removed2    : BOOLEAN ]

CloseGestures == {"click_close_button", "click_outside", "press_escape"}

(* Variant: the control is clicked once whatever aria-checked says.        *)
OpenDetailsPaneSingleClick(e) ==
    LET ev0 == <<"read_aria_checked">>
        ev2 == Append(ev0, "click_checkbox")
        ev3 == Append(ev2, "wait_iframe_attached")
    IN  IF e.openFail = "attr" THEN [ok |-> FALSE, events |-> ev0]
        ELSE IF e.openFail = "select" THEN [ok |-> FALSE, events |-> ev2]
        ELSE IF e.openFail = "wait" THEN [ok |-> FALSE, events |-> ev3]
        ELSE [ok |-> TRUE, events |-> ev3]

(* open_details_pane (l.314-343): the gestures issued, and whether it      *)
(* returned (ok) or raised.                                                *)
OpenDetailsPane(e) ==
    LET ev0 == <<"read_aria_checked">>
        ev1 == IF e.checked THEN Append(ev0, "click_checkbox") ELSE ev0
        ev2 == Append(ev1, "click_checkbox")
        ev3 == Append(ev2, "wait_iframe_attached")
    IN  IF e.openFail = "attr" THEN [ok |-> FALSE, events |-> ev0]
        ELSE IF e.checked /\ e.openFail = "uncheck"
                 THEN [ok |-> FALSE, events |-> ev1]
        ELSE IF e.openFail = "select" THEN [ok |-> FALSE, events |-> ev2]
        ELSE IF e.openFail = "wait" THEN [ok |-> FALSE, events |-> ev3]
        ELSE [ok |-> TRUE, events |-> ev3]

(* Variant: the inner try of the ESC fallback is missing, so a failing key  *)
(* press or removal wait leaves close_details_pane as an exception.        *)
EscapeFallbackUnguarded(e) ==
    IF e.escape = "raise"
        THEN [events |-> <<"press_escape">>, removed |-> FALSE, raised |-> TRUE]
    ELSE [events |-> <<"press_escape", "wait_all_removed">>,
          removed |-> e.removed2, raised |-> ~e.removed2]

(* The ESC fallback of close_details_pane (l.425-436): the key press and   *)
(* the wait are in their own try, whose handler only prints (l.435-436).   *)
EscapeFallback(e) ==
    IF e.escape = "raise"
        THEN [events |-> <<"press_escape">>, removed |-> FALSE, raised |-> FALSE]
    ELSE [events |-> <<"press_escape", "wait_all_removed">>,
          removed |-> e.removed2, raised |-> FALSE]

(* Variant: Escape is sent after the first gesture in every case, also     *)
(* when its removal wait has seen the surface gone.                        *)
CloseDetailsPaneAlwaysEscape(e) ==
    LET gesture == IF e.closeBtn = "visible" THEN "click_close_button"
                                            ELSE "click_outside"
        esc == EscapeFallback(e)
    IN  IF e.closeBtn = "error"
            THEN [events |-> <<"query_close_button">> \o esc.events,
                  removed |-> esc.removed, raised |-> esc.raised]
        ELSE IF e.click = "raise"
            THEN [events |-> <<"query_close_button", gesture>> \o esc.events,
                  removed |-> esc.removed, raised |-> esc.raised]
        ELSE [events |-> <<"query_close_button", gesture, "wait_all_removed">>
                            \o esc.events,
              removed |-> e.removed1 \/ esc.removed, raised |-> esc.raised]

(* close_details_pane (l.399-436).  It first looks for the configured      *)
(* close button (count, is_visible); whatever fails in the first try block *)
(* (l.410-424) leads to the ESC fallback, and an exception leaves the      *)
(* function only if it leaves the fallback.                                *)
CloseDetailsPane(e) ==
    LET gesture == IF e.closeBtn = "visible" THEN "click_close_button"
                                            ELSE "click_outside"
        esc == EscapeFallback(e)
    IN  IF e.closeBtn = "error"
            THEN [events |-> <<"query_close_button">> \o esc.events,
                  removed |-> esc.removed, raised |-> esc.raised]
        ELSE IF e.click = "raise"
            THEN [events |-> <<"query_close_button", gesture>> \o esc.events,
                  removed |-> esc.removed, raised |-> esc.raised]
        ELSE IF e.removed1
            THEN [events |-> <<"query_close_button", gesture, "wait_all_removed">>,
                  removed |-> TRUE, raised |-> FALSE]
        ELSE [events |-> <<"query_close_button", gesture, "wait_all_removed">>
                            \o esc.events,
              removed |-> esc.removed, raised |-> esc.raised]

(* Variant: the handler's close is not wrapped in its own try, so a failing *)
(* click leaves extract_row_details as an exception.                       *)
CleanupCloseUnguarded(e) ==
    LET gesture == IF e.closeBtn = "visible" THEN "click_close_button"
                                            ELSE "click_outside"
    IN  IF e.closeBtn = "error"
            THEN [events |-> <<"query_close_button">>,
                  removed |-> FALSE, raised |-> TRUE]
        ELSE IF e.click = "raise"
            THEN [events |-> <<"query_close_button", gesture>>,
                  removed |-> FALSE, raised |-> TRUE]
        ELSE [events |-> <<"query_close_button", gesture, "wait_last_detached">>,
              removed |-> e.removed1, raised |-> ~e.removed1]

(* The cleanup of the except handler of extract_row_details (l.493-510):   *)
(* the hard-coded close button if one is present, else a click outside,    *)
(* then a wait for the last surface to detach; every exception is          *)
(* swallowed (l.509-510).                                                  *)
CleanupClose(e) ==
    LET gesture == IF e.closeBtn = "visible" THEN "click_close_button"
                                            ELSE "click_outside"
    IN  IF e.closeBtn = "error"
            THEN [events |-> <<"query_close_button">>,
                  removed |-> FALSE, raised |-> FALSE]
        ELSE IF e.click = "raise"
            THEN [events |-> <<"query_close_button", gesture>>,
                  removed |-> FALSE, raised |-> FALSE]
        ELSE [events |-> <<"query_close_button", gesture, "wait_last_detached">>,
              removed |-> e.removed1, raised |-> FALSE]

(* The except branch of extract_row_details (l.489-512), entered with the  *)
(* gestures issued so far and whether the surface had been opened.         *)
ErrorPath(events, opened, e) ==
    LET c == CleanupClose(e)
    IN  [ ret     |-> EmptyDetails,
          raised  |-> c.raised,
          path    |-> "error",
          opened  |-> opened,
          events  |-> events,
          closing |-> c.events,
          removed |-> c.removed ]

(* extract_row_details (l.441-512).  The result records                    *)
(*   ret      the mapping returned                                         *)
(*   raised   an exception left the function                               *)
(*   path     "success" | "no_frame" | "error"                             *)
(*   opened   open_details_pane returned: a detail surface is attached     *)
(*   events   gestures issued up to the close                              *)
(*   closing  gestures issued to close the surface                         *)
(*   removed  a removal wait of the close saw the surface gone             *)
(* The close (l.479) is inside the try: an exception leaving it would be   *)
(* handled like any other (l.489).                                         *)
ExtractRowDetails(e) ==
    LET o   == OpenDetailsPane(e)
        ev1 == Append(o.events, "find_correct_iframe")
        ev2 == Append(ev1, "extract_overview")
        ev3 == Append(ev2, "extract_url")
        ev4 == Append(ev3, "extract_description")
        c   == CloseDetailsPane(e)
    IN  IF ~o.ok THEN ErrorPath(o.events, FALSE, e)
        ELSE IF e.frame = "raise" THEN ErrorPath(ev1, TRUE, e)
        ELSE IF e.frame = "none"
            THEN [ ret |-> EmptyDetails, raised |-> FALSE, path |-> "no_frame",
                   opened |-> TRUE, events |-> ev1, closing |-> <<>>,
                   removed |-> FALSE ]
        ELSE IF e.overview = RAISE THEN ErrorPath(ev2, TRUE, e)
        ELSE IF e.url = RAISE THEN ErrorPath(ev3, TRUE, e)
        ELSE IF e.description = RAISE THEN ErrorPath(ev4, TRUE, e)
        ELSE IF c.raised THEN ErrorPath(ev4 \o c.events, TRUE, e)
        ELSE [ ret |-> [ url         |-> Strip(e.url),
                         description |-> Strip(e.description),
                         overview    |-> Strip(e.overview) ],
               raised |-> FALSE, path |-> "success", opened |-> TRUE,
               events |-> ev4, closing |-> c.events, removed |-> c.removed ]

NoCall == [path |-> "none"]
NoEnv == [checked |-> FALSE]
NoPair == [pc |-> "none"]
NoRun == [pc |-> "none"]

(* What scrape_details_list sees of one invocation: the mapping returned.  *)
DetailOutcomes == { [ret |-> ExtractRowDetails(e).ret] : e \in DetailEnv }

-----------------------------------------------------------------------------
(* scrape_details_list (l.517-656)                                         *)

None == -1               \* Python's None as a row index
AttrAbsent == -1         \* attribute missing or ''
AttrText == -2           \* attribute present, not a digit string / no '-<digits>' suffix

(* A rendered row as the walker reads it: attr is data-item-index (a digit *)
(* string n >= 0, AttrAbsent or AttrText), id is the element id (ending in *)
(* '-n', AttrAbsent, or AttrText when it has no such suffix).              *)
RenderedRows == [attr : {AttrAbsent, AttrText} \cup Indices,
                 id   : {AttrAbsent, AttrText} \cup Indices]

(* l.566-574: the index of a rendered row, or None.                        *)
RowIndex(row) ==
    LET idx == IF row.attr = AttrAbsent
                   THEN (IF row.id >= 0 THEN row.id ELSE AttrAbsent)
                   ELSE row.attr
    IN  IF idx >= 0 THEN idx ELSE None

(* Every value l.574 can compute for a rendered row.                       *)
IndexReads == { RowIndex(row) : row \in RenderedRows }

(* Variant: the seen-set is not consulted.                                 *)
ShouldSkipUnseenOnly(index_num, seen) == index_num = None

(* l.575: the rows the walker skips.                                       *)
ShouldSkip(index_num, seen) == index_num = None \/ index_num \in seen

(* Variant: the elapsed seconds are compared without the conversion to ms. *)
TimedOutInSeconds(t) == t > TotalTimeoutMs * 1000

(* l.556: the timeout guard.                                               *)
TimedOut(t) == t > TotalTimeoutMs

(* Variant: no break on a non-empty description.                           *)
RetryDoneNoBreak(details, attempt) == attempt >= MaxRetryAttempts

(* Variant: the loop runs one attempt short, range(1, maxRetryAttempts).   *)
RetryDoneOneShort(details, attempt) ==
    details.description # "" \/ attempt >= MaxRetryAttempts - 1

(* l.601-608: the retry loop ends after this attempt.                      *)
RetryDone(details, attempt) ==
    details.description # "" \/ attempt >= MaxRetryAttempts

(* l.616-619 *)
NextIdle(found, idle) == IF found THEN 0 ELSE idle + 1

(* l.629-630: atBottom, for the scrollTop and maxScroll the browser reports *)
AtBottom(top, maxScroll) == top >= maxScroll - BottomTolerancePx

(* Variant: the threshold is compared with > instead of >=.                *)
ShouldStopLate(atBottom, idle) == atBottom /\ idle > MaxIdlePasses

(* Variant: or instead of and.                                             *)
ShouldStopEither(atBottom, idle) == atBottom \/ idle >= MaxIdlePasses

(* l.635 *)
ShouldStop(atBottom, idle) == atBottom /\ idle >= MaxIdlePasses

(* l.647-648 *)
ScrollDown(top, maxScroll) == Min(top + ScrollStepPx, maxScroll)

(* The two page evaluations that end a pass, l.622-633 and l.640-651, for  *)
(* every extent the browser may report to each of them (it clamps          *)
(* scrollTop to the extent): whether the walker sees atBottom, the         *)
(* scrollTop it reads, and the scrollTop after scrolling down.             *)
ScrollReads(scrollTopNow) ==
    { [ atBottom |-> AtBottom(Min(scrollTopNow, maxScroll), maxScroll),
        top      |-> Min(scrollTopNow, maxScroll),
        next     |-> ScrollDown(Min(Min(scrollTopNow, maxScroll), maxScroll2),
                                maxScroll2) ]
        : maxScroll \in 0 .. MaxScrollPx, maxScroll2 \in 0 .. MaxScrollPx }

ScrollReadsAt == [t \in 0 .. MaxScrollPx |-> ScrollReads(t)]

(* Variant: the detail keys are set only when an extraction filled them.   *)
RowObjectSparse(index_num, details) ==
    IF details = EmptyDetails THEN [index |-> index_num]
    ELSE [ index       |-> index_num,
           url         |-> details.url,
           description |-> details.description,
           overview    |-> details.overview ]

(* l.610-614: the row object appended (index is the key it was found under) *)
RowObject(index_num, details) ==
    [ index       |-> index_num,
      url         |-> details.url,
      description |-> details.description,
      overview    |-> details.overview ]

(* Variant: the new row is put at the head of the result.                  *)
InsertRowFirst(rows, obj) == <<obj>> \o rows

(* l.614: processed_rows.append(obj)                                       *)
AppendRow(rows, obj) == Append(rows, obj)

(* l.656 *)
ReturnValue(rows) == rows

(* Logical time: saturates one tick past the ceiling.                      *)
Tick(t, d) == Min(t + d, TotalTimeoutMs + 1)

NoRow == [index |-> None]

InitGhost ==
    [ appended     |-> FALSE,  \* a row was appended to processed_rows in this pass
      trailingIdle |-> 0,      \* most recent consecutive passes that appended nothing
      idleAtBottom |-> TRUE,   \* each of those passes ended with the container at bottom
      hist         |-> <<>>,   \* descriptions returned for the row in the retry loop
      lastHist     |-> <<>>,   \* the same for the row appended last
      stopAtBottom |-> FALSE,  \* the check that stopped the walk reported atBottom
      dupSkipped   |-> FALSE,  \* this pass rendered an already-seen index again
      seenOrder    |-> <<>>,   \* the indices in the order they were marked seen
      fresh        |-> TRUE,   \* no pass of this invocation has begun
      lastRead     |-> None ]  \* index_num of the row iterated last in this pass

InitWalk ==
    /\ pc = "start"
    /\ processed_rows = <<>>
    /\ seen_indices = {}
    /\ idle_passes = 0
    /\ new_rows_found = FALSE
    /\ remaining = 0
    /\ cur = NoRow
    /\ elapsed = 0
    /\ scrollTop \in 0 .. MaxScrollPx
    /\ outcome = "running"
    /\ returned = <<>>
    /\ extract_details \in BOOLEAN
    /\ ghost = InitGhost

(* Variant: the seen-index set outlives the invocation (a module-level     *)
(* set that is not rebound at entry).                                      *)
ScrollToTopKeepSeen ==
    /\ pc = "start"
    /\ processed_rows' = <<>>
    /\ idle_passes' = 0
    /\ scrollTop' = 0
    /\ elapsed' = Tick(0, PassDelayMs)
    /\ pc' = "guard"
    /\ UNCHANGED <<seen_indices, new_rows_found, remaining, cur, outcome,
                   returned, extract_details, ghost, env, call, pair, run>>

(* l.533-552: fresh accumulators, scroll to top, settle delay.             *)
ScrollToTop ==
    /\ pc = "start"
    /\ processed_rows' = <<>>
    /\ seen_indices' = {}
    /\ idle_passes' = 0
    /\ scrollTop' = 0
    /\ elapsed' = Tick(0, PassDelayMs)
    /\ pc' = "guard"
    /\ UNCHANGED <<new_rows_found, remaining, cur, outcome, returned,
                   extract_details, ghost,
                   env, call, pair, run>>

(* l.554-558: the guard fires; l.655-656: return what has accumulated.     *)
TimeoutBreak ==
    /\ pc = "guard"
    /\ TimedOut(elapsed)
    /\ pc' = "done"
    /\ outcome' = "timeout"
    /\ returned' = ReturnValue(processed_rows)
    /\ UNCHANGED <<processed_rows, seen_indices, idle_passes, new_rows_found,
                   remaining, cur, elapsed, scrollTop, extract_details, ghost,
                   env, call, pair, run>>

(* l.560-562: a pass begins with the rows rendered now.                    *)
PassStart ==
    /\ pc = "guard"
    /\ ~TimedOut(elapsed)
    /\ \E n \in 0 .. MaxVisible : remaining' = n
    /\ new_rows_found' = FALSE
    /\ pc' = "rows"
    /\ ghost' = [ghost EXCEPT !.appended = FALSE, !.fresh = FALSE]
    /\ UNCHANGED <<processed_rows, seen_indices, idle_passes, cur, elapsed,
                   scrollTop, outcome, returned, extract_details,
                   env, call, pair, run>>

(* Variant: a skipped row still sets new_rows_found.                       *)
SkipRowCountsNew ==
    /\ pc = "rows"
    /\ remaining > 0
    /\ \E index_num \in IndexReads :
          /\ ShouldSkip(index_num, seen_indices)
          /\ ghost' = [ghost EXCEPT !.dupSkipped = @ \/ index_num # None,
                                    !.lastRead = index_num]
    /\ remaining' = remaining - 1
    /\ new_rows_found' = TRUE
    /\ UNCHANGED <<pc, processed_rows, seen_indices, idle_passes,
                   cur, elapsed, scrollTop, outcome, returned, extract_details,
                   env, call, pair, run>>

(* l.564-576: the next rendered row has no index or a seen one.            *)
SkipRow ==
    /\ pc = "rows"
    /\ remaining > 0
    /\ \E index_num \in IndexReads :
          /\ ShouldSkip(index_num, seen_indices)
          /\ ghost' = [ghost EXCEPT !.dupSkipped = @ \/ index_num # None,
                                    !.lastRead = index_num]
    /\ remaining' = remaining - 1
    /\ UNCHANGED <<pc, processed_rows, seen_indices, idle_passes, new_rows_found,
                   cur, elapsed, scrollTop, outcome, returned, extract_details,
                   env, call, pair, run>>

(* l.578-614 with no detail extraction: mark seen, read cells, append.     *)
TakeRowPlain ==
    /\ pc = "rows"
    /\ remaining > 0
    /\ ~extract_details \/ MaxRetryAttempts < 1
    /\ \E index_num \in IndexReads :
          /\ ~ShouldSkip(index_num, seen_indices)
          /\ seen_indices' = seen_indices \cup {index_num}
          /\ processed_rows' = AppendRow(processed_rows,
                                         RowObject(index_num, EmptyDetails))
          /\ ghost' = [ghost EXCEPT !.lastHist = <<>>, !.appended = TRUE,
                                    !.seenOrder = Append(@, index_num),
                                    !.lastRead = index_num]
    /\ new_rows_found' = TRUE
    /\ remaining' = remaining - 1
    /\ UNCHANGED <<pc, idle_passes, cur, elapsed, scrollTop, outcome, returned,
                   extract_details,
                   env, call, pair, run>>

(* l.578-598: mark seen, read cells, enter the retry loop.                 *)
TakeRowDetails ==
    /\ pc = "rows"
    /\ remaining > 0
    /\ extract_details /\ MaxRetryAttempts >= 1
    /\ \E index_num \in IndexReads :
          /\ ~ShouldSkip(index_num, seen_indices)
          /\ seen_indices' = seen_indices \cup {index_num}
          /\ cur' = [index |-> index_num, attempt |-> 1]
          /\ ghost' = [ghost EXCEPT !.hist = <<>>,
                                    !.seenOrder = Append(@, index_num),
                                    !.lastRead = index_num]
    /\ new_rows_found' = TRUE
    /\ pc' = "retry"
    /\ UNCHANGED <<processed_rows, idle_passes, remaining, elapsed, scrollTop,
                   outcome, returned, extract_details,
                   env, call, pair, run>>

(* l.599-608: one extract_row_details call that leaves the loop running.   *)
(* The mapping it returned is overwritten by the next call (l.599) before  *)
(* anything reads it, so cur does not carry it.                            *)
AttemptRetry ==
    /\ pc = "retry"
    /\ \E o \in DetailOutcomes, dt \in 0 .. MaxAttemptMs :
          /\ ~RetryDone(o.ret, cur.attempt)
          /\ cur' = [cur EXCEPT !.attempt = @ + 1]
          /\ elapsed' = Tick(elapsed, dt)
          /\ ghost' = [ghost EXCEPT !.hist = Append(@, o.ret.description)]
    /\ UNCHANGED <<pc, processed_rows, seen_indices, idle_passes, new_rows_found,
                   remaining, scrollTop, outcome, returned, extract_details,
                   env, call, pair, run>>

(* l.599-614: the call that ends the loop; the row is appended.            *)
AttemptFinal ==
    /\ pc = "retry"
    /\ \E o \in DetailOutcomes, dt \in 0 .. MaxAttemptMs :
          /\ RetryDone(o.ret, cur.attempt)
          /\ processed_rows' = AppendRow(processed_rows,
                                         RowObject(cur.index, o.ret))
          /\ elapsed' = Tick(elapsed, dt)
          /\ ghost' = [ghost EXCEPT !.hist = <<>>, !.appended = TRUE,
                                    !.lastHist = Append(ghost.hist, o.ret.description)]
    /\ cur' = NoRow
    /\ pc' = "rows"
    /\ remaining' = remaining - 1
    /\ UNCHANGED <<seen_indices, idle_passes, new_rows_found, scrollTop,
                   outcome, returned, extract_details,
                   env, call, pair, run>>

(* l.616-637: end of a pass that stops the walk.                           *)
PassEndStop ==
    /\ pc = "rows"
    /\ remaining = 0
    /\ \E r \in ScrollReadsAt[scrollTop] :
          /\ ShouldStop(r.atBottom, NextIdle(new_rows_found, idle_passes))
          /\ scrollTop' = r.top
          /\ ghost' = [ghost EXCEPT
                 !.trailingIdle = IF ghost.appended THEN 0 ELSE @ + 1,
                 !.idleAtBottom = ghost.appended \/ (@ /\ r.atBottom),
                 !.stopAtBottom = r.atBottom,
                 !.dupSkipped = FALSE,
                 !.lastRead = None]
    /\ idle_passes' = NextIdle(new_rows_found, idle_passes)
    /\ pc' = "done"
    /\ outcome' = "stabilized"
    /\ returned' = ReturnValue(processed_rows)
    /\ UNCHANGED <<processed_rows, seen_indices, new_rows_found, remaining, cur,
                   elapsed, extract_details,
                   env, call, pair, run>>

(* l.616-653: end of a pass that scrolls on and waits.                     *)
PassEndScroll ==
    /\ pc = "rows"
    /\ remaining = 0
    /\ \E r \in ScrollReadsAt[scrollTop] :
          /\ ~ShouldStop(r.atBottom, NextIdle(new_rows_found, idle_passes))
          /\ scrollTop' = r.next
          /\ ghost' = [ghost EXCEPT
                 !.trailingIdle = IF ghost.appended THEN 0 ELSE @ + 1,
                 !.idleAtBottom = ghost.appended \/ (@ /\ r.atBottom),
                 !.dupSkipped = FALSE,
                 !.lastRead = None]
    /\ idle_passes' = NextIdle(new_rows_found, idle_passes)
    /\ elapsed' = Tick(elapsed, PassDelayMs)
    /\ pc' = "guard"
    /\ UNCHANGED <<processed_rows, seen_indices, new_rows_found, remaining, cur,
                   outcome, returned, extract_details,
                   env, call, pair, run>>

(* A page call of the walker itself raises (frame.evaluate, locator.all,   *)
(* get_attribute, inner_text): nothing in scrape_details_list catches it,  *)
(* the exception leaves the function and its locals are gone.              *)
WalkRaises ==
    /\ pc \in {"start", "guard", "rows"}
    /\ pc = "guard" => ~TimedOut(elapsed)
    /\ pc' = "done"
    /\ outcome' = "raised"
    /\ processed_rows' = <<>>
    /\ seen_indices' = {}
    /\ idle_passes' = 0
    /\ new_rows_found' = FALSE
    /\ remaining' = 0
    /\ cur' = NoRow
    /\ ghost' = InitGhost
    /\ UNCHANGED <<elapsed, scrollTop, returned, extract_details, env, call, pair, run>>

Next ==
    \/ ScrollToTop
    \/ TimeoutBreak
    \/ PassStart
    \/ SkipRow
    \/ TakeRowPlain
    \/ TakeRowDetails
    \/ AttemptRetry
    \/ AttemptFinal
    \/ PassEndStop
    \/ PassEndScroll
    \/ WalkRaises

Init == InitWalk /\ env = NoEnv /\ call = NoCall /\ pair = NoPair /\ run = NoRun

Spec == Init /\ [][Next]_vars

-----------------------------------------------------------------------------
(* One invocation of extract_row_details under every browser behaviour.    *)

InvokeExtractRowDetails ==
    /\ call = NoCall
    /\ call' = ExtractRowDetails(env)
    /\ UNCHANGED <<env, pair, run>>
    /\ UNCHANGED walkVars

InitDetails ==
    /\ InitWalk
    /\ scrollTop = 0
    /\ extract_details
    /\ env \in DetailEnv
    /\ call = NoCall
    /\ pair = NoPair
    /\ run = NoRun

NextDetails == InvokeExtractRowDetails

SpecDetails == InitDetails /\ [][NextDetails]_vars

-----------------------------------------------------------------------------
(* scrape_entra_portal (scraper.py l.314-320) walks the roadmap view and   *)
(* then the change-announcements view, each by its own call of             *)
(* scrape_details_list.  The locals of the finished call are dead; the     *)
(* model leaves their last values in place until the new call binds its    *)
(* own (l.533-538).                                                        *)

(* scraper.py l.96-99 and l.316-320: the roadmap walk returned, its rows    *)
(* are kept as roadmap, and scrape_tab for the next view reaches           *)
(* scrape_details_list.                                                    *)
NextView ==
    /\ run.view = "roadmap"
    /\ pc = "done"
    /\ outcome \in {"timeout", "stabilized"}
    /\ run' = [view |-> "changeAnnouncements", roadmap |-> returned]
    /\ pc' = "start"
    /\ outcome' = "running"
    /\ returned' = <<>>
    /\ ghost' = InitGhost
    /\ UNCHANGED <<processed_rows, seen_indices, idle_passes, new_rows_found,
                   remaining, cur, elapsed, scrollTop, extract_details,
                   env, call, pair>>

(* Both views are configured with extractDetails false (l.315, l.319), so  *)
(* the retry loop of l.597-608 is never entered in either walk.            *)
InitViews ==
    /\ InitWalk
    /\ ~extract_details
    /\ env = NoEnv
    /\ call = NoCall
    /\ pair = NoPair
    /\ run = [view |-> "roadmap", roadmap |-> <<>>]

NextViews ==
    \/ ScrollToTop
    \/ TimeoutBreak
    \/ PassStart
    \/ SkipRow
    \/ TakeRowPlain
    \/ PassEndStop
    \/ PassEndScroll
    \/ WalkRaises
    \/ NextView

SpecViews == InitViews /\ [][NextViews]_vars

-----------------------------------------------------------------------------
(* scrape_tab (scraper.py l.62-99) with click_tab (l.107-151) and          *)
(* set_date_range_filter (l.154-199), under every behaviour of the page.   *)
(* The walk is one call whose outcome the page decides: the list it        *)
(* returns, or an exception that leaves it.                                *)

WalkReturns ==
    { [kind |-> "rows", rows |-> <<>>],
      [kind |-> "rows", rows |-> <<RowObject(0, EmptyDetails)>>],
      [kind |-> "raise", rows |-> <<>>] }

FilterSteps == {"button_wait", "button_click", "menu_delay", "radio_wait",
                "radio_click", "apply_query", "apply_click"}

(*   count       role_tab.count(): "none" (0), "some" (> 0) or "raise"     *)
(*   visible, click, forceClick, delay                                     *)
(*               the awaits of l.135, l.139, l.143, l.146: "ok" or "raise" *)
(*   dateFilter  a date filter is configured (date_filter is truthy)       *)
(*   filterFail  the step of set_date_range_filter that raises, or "none"  *)
(*   apply       the Apply button is present and enabled                   *)
(*   walk        what scrape_details_list does                             *)
TabEnv ==
    [ count      : {"none", "some", "raise"},
      visible    : {"ok", "raise"},
      click      : {"ok", "raise"},
      forceClick : {"ok", "raise"},
      delay      : {"ok", "raise"},
      dateFilter : BOOLEAN,
      filterFail : {"none"} \cup FilterSteps,
      apply      : BOOLEAN,
      walk       : WalkReturns ]

(* Variant: the forced click is not covered by the outer try, so its       *)
(* failure leaves click_tab as an exception.                               *)
ClickTabForceUnguarded(e) ==
    IF e.count # "some" \/ e.visible = "raise"
        THEN [ok |-> FALSE, raised |-> FALSE]
    ELSE IF e.click = "raise" /\ e.forceClick = "raise"
        THEN [ok |-> FALSE, raised |-> TRUE]
    ELSE IF e.delay = "raise" THEN [ok |-> FALSE, raised |-> FALSE]
    ELSE [ok |-> TRUE, raised |-> FALSE]

(* click_tab (l.107-151): wait_for_splash_screen contains its own failure; *)
(* count 0 falls through to return False (l.151); every exception of       *)
(* l.122-147, the forced click of the inner handler included, is caught at *)
(* l.148.                                                                  *)
ClickTab(e) ==
    IF e.count # "some" \/ e.visible = "raise"
        THEN [ok |-> FALSE, raised |-> FALSE]
    ELSE IF e.click = "raise" /\ e.forceClick = "raise"
        THEN [ok |-> FALSE, raised |-> FALSE]
    ELSE IF e.delay = "raise" THEN [ok |-> FALSE, raised |-> FALSE]
    ELSE [ok |-> TRUE, raised |-> FALSE]

(* The step of set_date_range_filter that fails, if one is reached: the    *)
(* Apply click is made only when the button is present and enabled         *)
(* (l.191).                                                                *)
FilterFailure(e) ==
    IF e.filterFail = "apply_click" /\ ~e.apply THEN "none" ELSE e.filterFail

(* Variant: a missing radio option is not caught.                          *)
SetDateRangeFilterUnguarded(e) ==
    [ ok      |-> FilterFailure(e) = "none",
      raised  |-> FilterFailure(e) \in {"radio_wait", "radio_click"},
      applied |-> FilterFailure(e) = "none" /\ e.apply ]

(* set_date_range_filter (l.154-199): True when every step went through,   *)
(* False from the handler of l.197-199 otherwise.                          *)
SetDateRangeFilter(e) ==
    [ ok      |-> FilterFailure(e) = "none",
      raised  |-> FALSE,
      applied |-> FilterFailure(e) = "none" /\ e.apply ]

TabRaised(calls) ==
    [ret |-> [kind |-> "raise", rows |-> <<>>], raised |-> TRUE, calls |-> calls]

(* scrape_tab (scraper.py l.62-99): what it returns (None, or the rows of   *)
(* the walk), whether an exception left it, and the calls it made.         *)
ScrapeTab(e) ==
    LET t  == ClickTab(e)
        f  == SetDateRangeFilter(e)
        c1 == <<"click_tab">>
        c2 == IF e.dateFilter THEN Append(c1, "set_date_range_filter") ELSE c1
        c3 == Append(c2, "scrape_details_list")
    IN  IF t.raised THEN TabRaised(c1)
        ELSE IF ~t.ok
            THEN [ret |-> [kind |-> "None", rows |-> <<>>], raised |-> FALSE,
                  calls |-> c1]
        ELSE IF e.dateFilter /\ f.raised THEN TabRaised(c2)
        ELSE IF e.walk.kind = "raise" THEN TabRaised(c3)
        ELSE [ret |-> [kind |-> "rows", rows |-> ReturnValue(e.walk.rows)],
              raised |-> FALSE, calls |-> c3]

InvokeScrapeTab ==
    /\ run.pc = "call"
    /\ run' = [pc |-> "returned", env |-> run.env, result |-> ScrapeTab(run.env)]
    /\ UNCHANGED <<env, call, pair>>
    /\ UNCHANGED walkVars

InitTab ==
    /\ InitWalk
    /\ scrollTop = 0
    /\ extract_details
    /\ env = NoEnv
    /\ call = NoCall
    /\ pair = NoPair
    /\ \E e \in TabEnv : run = [pc |-> "call", env |-> e]

NextTab == InvokeScrapeTab

SpecTab == InitTab /\ [][NextTab]_vars

-----------------------------------------------------------------------------
(* One run of main (entra.py l.33-103): load_configuration,                *)
(* authentication, scrape_all_sources (scrape_entra_portal with its two    *)
(* scrape_tab calls, then scrape_whats_new_page), and the saving and       *)
(* uploading of each non-empty result.  run records                        *)
(*   pc         the next step, or "exited"                                 *)
(*   code       the exit status once exited                                *)
(*   cause      the failure that ended the run, or "none"                  *)
(*   config     "unset" | "loaded" | "absent"                              *)
(*   dateFilter a valid date filter is configured                          *)
(*   attempted  the views whose scrape has been started                    *)
(*   roadmap, changeAnnouncements, whatsNew   the data of each view        *)
(*   logged     the failures that were only logged                         *)

NoData == [kind |-> "None", rows |-> <<>>]

(* What one scrape_tab call gives its caller.                              *)
TabOutcomes ==
    { [ret |-> ScrapeTab(e).ret, raised |-> ScrapeTab(e).raised] : e \in TabEnv }

(* scrape_whats_new_page (scraper.py l.102-145): the items, or None when    *)
(* the fetch or the parsing fails (l.143-145).                             *)
WhatsNewOutcomes ==
    { NoData,
      [kind |-> "rows", rows |-> <<>>],
      [kind |-> "rows", rows |-> <<[title |-> "t"]>>] }

(* entra.py l.55, l.67, l.84: if <data>:                                   *)
Truthy(data) == data.kind = "rows" /\ data.rows # <<>>

(* exit(1): at config.py l.43 and l.49 directly, and at entra.py l.101-103  *)
(* for every exception that reaches main.                                  *)
ExitFailure(r, cause) == [r EXCEPT !.pc = "exited", !.code = 1, !.cause = cause]

InitRunState ==
    [ pc |-> "load_configuration", code |-> 0, cause |-> "none",
      config |-> "unset", dateFilter |-> FALSE, attempted |-> {}, logged |-> {},
      roadmap |-> NoData, changeAnnouncements |-> NoData, whatsNew |-> NoData ]

(* config.py l.17-49 *)
LoadConfiguration ==
    /\ run.pc = "load_configuration"
    /\ \E file \in {"absent", "valid_date_filter", "no_date_filter",
                     "invalid_date_filter", "unreadable"} :
          run' = CASE file = "absent" ->
                        [run EXCEPT !.pc = "authenticate", !.config = "absent"]
                   [] file = "valid_date_filter" ->
                        [run EXCEPT !.pc = "authenticate", !.config = "loaded",
                                    !.dateFilter = TRUE]
                   [] file = "no_date_filter" ->
                        [run EXCEPT !.pc = "authenticate", !.config = "loaded"]
                   [] file = "invalid_date_filter" ->
                        ExitFailure(run, "invalid_configuration")
                   [] file = "unreadable" ->
                        ExitFailure(run, "unreadable_configuration")
    /\ UNCHANGED <<env, call, pair>>
    /\ UNCHANGED walkVars

(* entra.py l.38-43: initialize_authentication, reset_caches, get_config,  *)
(* get_access_token, get_date_filter.  An exception of the authentication  *)
(* reaches the handler of l.101.                                           *)
InitializeAuthentication ==
    /\ run.pc = "authenticate"
    /\ \E auth \in {"ok", "raise"} :
          run' = IF auth = "raise" THEN ExitFailure(run, "authentication")
                 ELSE [run EXCEPT !.pc = "open_portal"]
    /\ UNCHANGED <<env, call, pair>>
    /\ UNCHANGED walkVars

(* scraper.py l.259-312: launch, goto, the ReactView iframe and its        *)
(* content frame, splash screen.  Without a loaded configuration           *)
(* get_timeouts (browser_helpers.py l.17-18) raises at l.300 at the        *)
(* latest.  Any exception closes the browser (l.326-327) and propagates.   *)
OpenPortal ==
    /\ run.pc = "open_portal"
    /\ \E page \in {"ok", "goto_raises", "frame_never_attaches",
                     "frame_without_content"} :
          run' = IF page = "goto_raises" THEN ExitFailure(run, "navigation")
                 ELSE IF page # "ok" THEN ExitFailure(run, "frame_unavailable")
                 ELSE IF run.config # "loaded"
                     THEN ExitFailure(run, "configuration_missing")
                 ELSE [run EXCEPT !.pc = "roadmap"]
    /\ UNCHANGED <<env, call, pair>>
    /\ UNCHANGED walkVars

(* scraper.py l.315-316 *)
ScrapeRoadmap ==
    /\ run.pc = "roadmap"
    /\ \E o \in TabOutcomes :
          LET r == [run EXCEPT !.attempted = @ \cup {"roadmap"}]
          IN  run' = IF o.raised THEN ExitFailure(r, "roadmap_scrape")
                     ELSE [r EXCEPT !.pc = "change_announcements",
                                    !.roadmap = o.ret]
    /\ UNCHANGED <<env, call, pair>>
    /\ UNCHANGED walkVars

(* scraper.py l.319-328 *)
ScrapeChangeAnnouncements ==
    /\ run.pc = "change_announcements"
    /\ \E o \in TabOutcomes :
          LET r == [run EXCEPT !.attempted = @ \cup {"changeAnnouncements"}]
          IN  run' = IF o.raised
                         THEN ExitFailure(r, "change_announcements_scrape")
                     ELSE [r EXCEPT !.pc = "whats_new",
                                    !.changeAnnouncements = o.ret]
    /\ UNCHANGED <<env, call, pair>>
    /\ UNCHANGED walkVars

(* scraper.py l.346-354 *)
ScrapeWhatsNewPage ==
    /\ run.pc = "whats_new"
    /\ \E w \in WhatsNewOutcomes :
          run' = [run EXCEPT
                    !.pc = "process",
                    !.attempted = @ \cup {"whatsNew"},
                    !.whatsNew = w,
                    !.logged = IF w = NoData THEN @ \cup {"whats_new_fetch"}
                               ELSE @]
    /\ UNCHANGED <<env, call, pair>>
    /\ UNCHANGED walkVars

(* entra.py l.54-100: each non-empty result is saved to a file when so     *)
(* configured (an OSError reaches l.101) and handed to                     *)
(* insert_into_sharepoint_list, which contains its failures                *)
(* (sharepoint.py l.333-334).                                              *)
ProcessResults ==
    /\ run.pc = "process"
    /\ \E save \in {"off", "ok", "raise"}, upload \in {"ok", "fail"} :
          LET any == Truthy(run.roadmap) \/ Truthy(run.changeAnnouncements)
                       \/ Truthy(run.whatsNew)
          IN  run' = IF any /\ save = "raise" THEN ExitFailure(run, "save_to_file")
                     ELSE [run EXCEPT
                             !.pc = "exited",
                             !.logged = IF any /\ upload = "fail"
                                            THEN @ \cup {"upload"} ELSE @]
    /\ UNCHANGED <<env, call, pair>>
    /\ UNCHANGED walkVars

InitRun ==
    /\ InitWalk
    /\ scrollTop = 0
    /\ extract_details
    /\ env = NoEnv
    /\ call = NoCall
    /\ pair = NoPair
    /\ run = InitRunState

NextRun ==
    \/ LoadConfiguration
    \/ InitializeAuthentication
    \/ OpenPortal
    \/ ScrapeRoadmap
    \/ ScrapeChangeAnnouncements
    \/ ScrapeWhatsNewPage
    \/ ProcessResults

SpecRun == InitRun /\ [][NextRun]_vars

-----------------------------------------------------------------------------
(* Two walks of scrape_details_list over one list, the first with          *)
(* extract_details false and the second with extract_details true.  The    *)
(* list answers both walks alike: in pass k it renders the same rows and   *)
(* reports the same scroll extents to both.  Only the second walk spends   *)
(* time in extract_row_details.                                            *)

(* Mappings extract_row_details may return, told apart by the description. *)
PairDetails == { o.ret : o \in { x \in DetailOutcomes :
                                    x.ret.url = "" /\ x.ret.overview = "" } }

(* What the successive calls for one row would return and the time each    *)
(* takes.                                                                  *)
AttemptScripts ==
    [1 .. MaxRetryAttempts -> [ret : PairDetails, ms : 0 .. MaxAttemptMs]]

(* l.597-608: the retry loop from the given attempt on: the mapping it     *)
(* leaves in details, the calls made and the time spent.                   *)
RECURSIVE RetryLoop(_, _)
RetryLoop(script, attempt) ==
    LET r == script[attempt]
    IN  IF RetryDone(r.ret, attempt)
            THEN [details |-> r.ret, calls |-> attempt, ms |-> r.ms]
        ELSE [RetryLoop(script, attempt + 1) EXCEPT !.ms = @ + r.ms]

LoopResults == { RetryLoop(script, 1) : script \in AttemptScripts }

(* l.595: without extraction the defaults stay.                            *)
NoExtraction == [details |-> EmptyDetails, calls |-> 0, ms |-> 0]

(* Variant: the retry loop is entered whatever extract_details says.       *)
ExtractionAlways(extract, res) ==
    IF MaxRetryAttempts >= 1 THEN res ELSE NoExtraction

(* l.597-598: the loop runs only with extract_details; range(1, n + 1) is  *)
(* empty for n < 1.                                                        *)
Extraction(extract, res) ==
    IF extract /\ MaxRetryAttempts >= 1 THEN res ELSE NoExtraction

(* l.564-614 for one rendered row.                                         *)
PairRow(w, index_num, res, extract) ==
    IF ShouldSkip(index_num, w.seen) THEN w
    ELSE LET x == Extraction(extract, res)
         IN  [w EXCEPT !.seen = @ \cup {index_num},
                       !.found = TRUE,
                       !.rows = AppendRow(@, RowObject(index_num, x.details)),
                       !.calls = @ + x.calls,
                       !.elapsed = Tick(@, x.ms)]

(* l.616-653: the end of a pass, the browser reporting the extents         *)
(* maxScroll and maxScroll2 to the two evaluations.                        *)
PairPassEnd(w, maxScroll, maxScroll2) ==
    LET idle == NextIdle(w.found, w.idle)
        top  == Min(w.top, maxScroll)
    IN  IF ShouldStop(AtBottom(top, maxScroll), idle)
            THEN [w EXCEPT !.idle = idle, !.top = top, !.out = "stabilized"]
        ELSE [w EXCEPT !.idle = idle,
                       !.top = ScrollDown(Min(top, maxScroll2), maxScroll2),
                       !.elapsed = Tick(@, PassDelayMs)]

(* l.554-562: the guard and the start of a pass.                           *)
PairGuardStep(w) ==
    IF TimedOut(w.elapsed) THEN [w EXCEPT !.out = "timeout"]
    ELSE [w EXCEPT !.found = FALSE]

(* A walk that has returned takes no further step.                         *)
IfRunning(w, stepped) == IF w.out = "running" THEN stepped ELSE w

PairRunning(p) == p.plain.out = "running" \/ p.det.out = "running"

(* l.533-552 *)
PairWalkStart ==
    [ rows |-> <<>>, seen |-> {}, idle |-> 0, found |-> FALSE, top |-> 0,
      elapsed |-> Tick(0, PassDelayMs), out |-> "running", calls |-> 0 ]

PairStart ==
    /\ pair.pc = "start"
    /\ pair' = [pc |-> "guard", remaining |-> 0,
                plain |-> PairWalkStart, det |-> PairWalkStart]
    /\ UNCHANGED <<env, call, run>>
    /\ UNCHANGED walkVars

(* l.554-562 in both walks; the list renders n rows.                       *)
PairGuard ==
    /\ pair.pc = "guard"
    /\ \E n \in 0 .. MaxVisible :
          LET p == [pair EXCEPT !.plain = IfRunning(@, PairGuardStep(@)),
                                !.det   = IfRunning(@, PairGuardStep(@))]
          IN  pair' = IF PairRunning(p)
                          THEN [p EXCEPT !.pc = "rows", !.remaining = n]
                      ELSE [p EXCEPT !.pc = "done", !.remaining = 0]
    /\ UNCHANGED <<env, call, run>>
    /\ UNCHANGED walkVars

(* l.564-614 in both walks, for the next rendered row.                     *)
PairTakeRow ==
    /\ pair.pc = "rows"
    /\ pair.remaining > 0
    /\ \E index_num \in IndexReads, res \in LoopResults :
          pair' = [pair EXCEPT
                     !.remaining = @ - 1,
                     !.plain = IfRunning(@, PairRow(@, index_num, res, FALSE)),
                     !.det   = IfRunning(@, PairRow(@, index_num, res, TRUE))]
    /\ UNCHANGED <<env, call, run>>
    /\ UNCHANGED walkVars

(* l.616-653 in both walks.                                                *)
PairPassFinish ==
    /\ pair.pc = "rows"
    /\ pair.remaining = 0
    /\ \E maxScroll \in 0 .. MaxScrollPx, maxScroll2 \in 0 .. MaxScrollPx :
          LET p == [pair EXCEPT
                      !.plain = IfRunning(@, PairPassEnd(@, maxScroll, maxScroll2)),
                      !.det   = IfRunning(@, PairPassEnd(@, maxScroll, maxScroll2))]
          IN  pair' = [p EXCEPT !.pc = IF PairRunning(p) THEN "guard" ELSE "done"]
    /\ UNCHANGED <<env, call, run>>
    /\ UNCHANGED walkVars

InitPair ==
    /\ InitWalk
    /\ scrollTop = 0
    /\ extract_details
    /\ env = NoEnv
    /\ call = NoCall
    /\ run = NoRun
    /\ pair = [pc |-> "start"]

NextPair ==
    \/ PairStart
    \/ PairGuard
    \/ PairTakeRow
    \/ PairPassFinish

SpecPair == InitPair /\ [][NextPair]_vars

-----------------------------------------------------------------------------
(* Properties of the walk (Spec).                                          *)

LastRow == processed_rows[Len(processed_rows)]

RowIndices(rows) == [i \in 1 .. Len(rows) |-> rows[i].index]

AllEmpty(h) == \A i \in 1 .. Len(h) : h[i] = ""

NoTwoRowsShareIndex(rows) ==
    \A i, j \in 1 .. Len(rows) : i # j => rows[i].index # rows[j].index

(* C1  Uniqueness: whatever rows the passes render (an index rendered in   *)
(* several passes, or twice in one pass), at most one row is appended per  *)
(* index: no two rows of the accumulator, or of the list returned, were    *)
(* produced for the same index.                                            *)
C1_Uniqueness ==
    /\ NoTwoRowsShareIndex(processed_rows)
    /\ NoTwoRowsShareIndex(returned)

(* An already-seen index was rendered again in this pass and skipped,      *)
(* with two rows accumulated.                                              *)
C1_Witness ==
    /\ ghost.dupSkipped
    /\ Len(processed_rows) >= 2

(* C2  Retry until success: when extract_row_details returned an empty     *)
(* description k times (k < maxRetryAttempts) and a non-empty one on call  *)
(* k+1, the appended row carries that description and the calls made for   *)
(* the row are exactly k+1; while the loop runs, every description         *)
(* returned so far is empty (no call follows a non-empty one).             *)
C2_RetryUntilSuccess ==
    /\ AllEmpty(ghost.hist)
    /\ \A k \in 0 .. (MaxRetryAttempts - 1) :
          ( /\ Len(processed_rows) > 0
            /\ Len(ghost.lastHist) >= k + 1
            /\ AllEmpty(SubSeq(ghost.lastHist, 1, k))
            /\ ghost.lastHist[k + 1] # "" )
          => /\ Len(ghost.lastHist) = k + 1
             /\ LastRow.description = ghost.lastHist[k + 1]

(* A row was appended after one empty attempt and a successful second.     *)
C2_Witness ==
    /\ Len(processed_rows) > 0
    /\ Len(ghost.lastHist) = 2
    /\ ghost.lastHist[1] = ""
    /\ ghost.lastHist[2] # ""
    /\ LastRow.description = ghost.lastHist[2]

(* C3  Retry exhaustion: when every call returned an empty description,    *)
(* exactly maxRetryAttempts calls were made for the row, the row is        *)
(* appended and its description is empty; the loop never holds             *)
(* maxRetryAttempts results and goes on.                                   *)
C3_RetryExhaustion ==
    /\ Len(ghost.hist) < MaxRetryAttempts
    /\ ( /\ Len(processed_rows) > 0
         /\ ghost.lastHist # <<>>
         /\ AllEmpty(ghost.lastHist) )
       => /\ Len(ghost.lastHist) = MaxRetryAttempts
          /\ LastRow.description = ""

(* A row was appended with an empty description after the last attempt.    *)
C3_Witness ==
    /\ Len(processed_rows) > 0
    /\ Len(ghost.lastHist) = MaxRetryAttempts
    /\ AllEmpty(ghost.lastHist)
    /\ LastRow.description = ""
    /\ LastRow.index \in seen_indices

(* C4  Idle-threshold termination: when every pass since the last one that *)
(* appended a row ended with the container at bottom, the walk stops by    *)
(* stabilization with exactly maxIdlePasses such passes behind it, and is  *)
(* never still running with maxIdlePasses of them behind it.               *)
C4_IdleThreshold ==
    /\ (outcome = "stabilized" /\ ghost.idleAtBottom)
          => ghost.trailingIdle = MaxIdlePasses
    /\ (outcome = "running" /\ ghost.idleAtBottom /\ ghost.trailingIdle >= 1)
          => ghost.trailingIdle < MaxIdlePasses

(* Rows were produced, then maxIdlePasses idle passes at bottom stopped    *)
(* the walk.                                                               *)
C4_Witness ==
    /\ outcome = "stabilized"
    /\ ghost.idleAtBottom
    /\ ghost.trailingIdle = MaxIdlePasses
    /\ Len(returned) >= 1

(* C5  Successful stop condition: the walk ends as "reached bottom and     *)
(* stabilized" only by a check that reported atBottom with the idle        *)
(* counter >= maxIdlePasses, and the idle counter always equals the number *)
(* of most recent consecutive passes that appended no row.                 *)
C5_StopCondition ==
    /\ idle_passes = ghost.trailingIdle
    /\ outcome = "stabilized"
          => /\ ghost.stopAtBottom
             /\ idle_passes >= MaxIdlePasses

(* Idle passes accumulated away from the bottom did not stop the walk: it  *)
(* stopped only later, at bottom, with the counter above the threshold.    *)
C5_Witness ==
    /\ outcome = "stabilized"
    /\ ghost.stopAtBottom
    /\ ~ghost.idleAtBottom
    /\ idle_passes > MaxIdlePasses

(* C6  Bounded walk: scrape_details_list has terminated within             *)
(* totalTimeoutMs of its start, whatever the list and the extractions do.  *)
C6_BoundedWalk == pc = "done" => elapsed <= TotalTimeoutMs

(* C7  Partial result on timeout: a pass start that finds the elapsed time *)
(* above totalTimeoutMs ends the walk at once, without raising, returning  *)
(* the rows appended so far in order; no row is read, no surface opened    *)
(* and no scroll made by that step or after it.                            *)
C7_PartialOnTimeout ==
    [][ /\ (pc = "guard" /\ elapsed > TotalTimeoutMs)
            => /\ pc' = "done"
               /\ outcome' = "timeout"
               /\ returned' = processed_rows
               /\ processed_rows' = processed_rows
               /\ seen_indices' = seen_indices
               /\ scrollTop' = scrollTop
        /\ outcome = "timeout" => UNCHANGED walkVars ]_vars

(* The walk ended by the timeout guard and returned a row.                 *)
C7_Witness ==
    /\ outcome = "timeout"
    /\ pc = "done"
    /\ Len(returned) >= 1
    /\ returned = processed_rows

RowShape(row) ==
    /\ {"url", "description", "overview"} \subseteq DOMAIN row
    /\ row.url \in Strings
    /\ row.description \in Strings
    /\ row.overview \in Strings

(* C13  Row shape invariant: every row in the result collection, at every  *)
(* point of the walk and on every outcome of detail extraction (success,   *)
(* retry exhaustion, exception, details disabled), has the keys url,       *)
(* description and overview present with string values, possibly empty.    *)
C13_RowShape ==
    /\ \A i \in 1 .. Len(processed_rows) : RowShape(processed_rows[i])
    /\ \A i \in 1 .. Len(returned) : RowShape(returned[i])

(* The walk returned a row whose extraction gave up with everything empty  *)
(* (exhaustion or exception) after a row whose extraction succeeded.       *)
C13_Witness ==
    /\ extract_details
    /\ Len(returned) = 2
    /\ returned[1].description = "d" /\ returned[1].url = "u"
    /\ returned[2].description = "" /\ returned[2].url = ""
    /\ returned[2].overview = ""

(* C14  Strictly sequential extraction in discovery order: the result      *)
(* lists the rows in the order their indices were first marked seen; while *)
(* the orchestration of a row (its extract_row_details calls and retries)  *)
(* is under way, that row is the one marked seen last and every row marked *)
(* seen before it is already in the result, so no later row has been read. *)
C14_DiscoveryOrder ==
    /\ pc = "retry" =>
          /\ ghost.seenOrder = Append(RowIndices(processed_rows), cur.index)
          /\ Len(ghost.hist) = cur.attempt - 1
    /\ pc # "retry" =>
          /\ cur = NoRow
          /\ RowIndices(processed_rows) = ghost.seenOrder
    /\ outcome \in {"timeout", "stabilized"} =>
          RowIndices(returned) = ghost.seenOrder

(* The second row's extraction is being retried, the first row is in the   *)
(* result, and the list had rendered the indices in descending order.      *)
C14_Witness ==
    /\ pc = "retry"
    /\ cur.attempt = 2
    /\ Len(processed_rows) = 1
    /\ ghost.seenOrder = <<1, 0>>
    /\ processed_rows[1].index = 1

-----------------------------------------------------------------------------
(* Properties of one extract_row_details invocation (SpecDetails).         *)

OpenRaises(e) ==
    \/ e.openFail \in {"attr", "select", "wait"}
    \/ e.openFail = "uncheck" /\ e.checked

(* A step before the close raises into extract_row_details.                *)
RaisesBeforeClose(e) ==
    \/ OpenRaises(e)
    \/ e.frame = "raise"
    \/ e.frame = "frame" /\ RAISE \in {e.overview, e.url, e.description}

Gestures(events) == SelectSeq(events, LAMBDA x : x \in CloseGestures)

(* C8  extract_row_details never raises outward: whichever step fails, it  *)
(* returns a mapping with exactly the keys url, description and overview,  *)
(* each a string, all three empty whenever a step before the close raised. *)
C8_NeverRaises ==
    call # NoCall =>
        /\ ~call.raised
        /\ DOMAIN call.ret = {"url", "description", "overview"}
        /\ \A k \in DOMAIN call.ret : call.ret[k] \in Strings
        /\ RaisesBeforeClose(env) => call.ret = EmptyDetails

(* An extraction raised after the surface was opened, and the click of the *)
(* cleanup close raised too: the call still returned the empty mapping.    *)
C8_Witness ==
    /\ call # NoCall
    /\ ~OpenRaises(env)
    /\ env.frame = "frame"
    /\ env.description = RAISE
    /\ env.closeBtn = "visible"
    /\ env.click = "raise"
    /\ call.ret = EmptyDetails

(* C9  Close before next row: every invocation in which a detail surface   *)
(* was opened has entered a close of the surface before it returns, on     *)
(* every return path.                                                      *)
C9_CloseBeforeReturn ==
    (call # NoCall /\ call.opened) => call.closing # <<>>

(* C10  Cleanup on error uses the same close chain: when a step raises,    *)
(* the close gestures issued before the empty result is returned are those *)
(* close_details_pane issues against the same page (close affordance or    *)
(* click outside, then Escape when the surface is not seen removed).       *)
C10_SameCloseChain ==
    (call # NoCall /\ call.path = "error")
        => Gestures(call.closing) = Gestures(CloseDetailsPane(env).events)

(* The invocation reaches close_details_pane at l.479.                     *)
CloseReached(e) == ~RaisesBeforeClose(e) /\ e.frame = "frame"

(* Close control / click outside fails or its removal wait times out, and  *)
(* so does Escape.                                                         *)
EveryCloseFallbackFails(e) ==
    /\ e.closeBtn = "error" \/ e.click = "raise" \/ ~e.removed1
    /\ e.escape = "raise" \/ ~e.removed2

(* C11  Graceful degradation on close failure: when the close of the       *)
(* detail surface fails by every fallback (close control or click outside, *)
(* then Escape, removal waits timing out included), close_details_pane and *)
(* extract_row_details still return normally: no exception, the extracted  *)
(* fields are returned, with the surface still attached.                   *)
C11_CloseFailureTolerated ==
    (call # NoCall /\ CloseReached(env) /\ EveryCloseFallbackFails(env))
        => /\ ~call.raised
           /\ call.path = "success"
           /\ ~call.removed
           /\ call.ret = [ url         |-> Strip(env.url),
                           description |-> Strip(env.description),
                           overview    |-> Strip(env.overview) ]

(* The close button was clicked, the surface stayed, Escape was pressed,   *)
(* the surface stayed: the description extracted is returned all the same. *)
C11_Witness ==
    /\ call # NoCall
    /\ CloseReached(env)
    /\ env.closeBtn = "visible" /\ env.click = "ok" /\ ~env.removed1
    /\ env.escape = "ok" /\ ~env.removed2
    /\ Gestures(call.closing) = <<"click_close_button", "press_escape">>
    /\ call.ret.description = "d"

(* The first stage of the close did not get the surface removed: the close *)
(* button could not be queried, the click raised, or the wait timed out.   *)
FirstStageFails(e) == e.closeBtn = "error" \/ e.click = "raise" \/ ~e.removed1

(* Every gesture of the sequence that is not the last event is followed by *)
(* a removal wait, unless the gesture itself raised.                       *)
WaitFollows(events, e) ==
    \A i \in 1 .. Len(events) :
        events[i] \in CloseGestures =>
            \/ i < Len(events) /\ events[i + 1] = "wait_all_removed"
            \/ events[i] = "press_escape" /\ e.escape = "raise"
            \/ events[i] # "press_escape" /\ e.click = "raise"

(* C20 as stated: the close affordance first; if the surface is not        *)
(* removed as a result, a click outside the surface; if it is still not    *)
(* removed, Escape; each gesture followed by a removal wait, and no        *)
(* gesture once removal has been observed.                                 *)
C20_ThreeStageChain ==
    (call # NoCall /\ call.path = "success") =>
        LET g == Gestures(call.closing)
        IN  /\ call.closing[1] = "query_close_button"
            /\ (env.closeBtn = "visible" /\ FirstStageFails(env)) =>
                  /\ Len(g) >= 2
                  /\ g[1] = "click_close_button"
                  /\ g[2] = "click_outside"
            /\ WaitFollows(call.closing, env)
            /\ ~FirstStageFails(env) => Len(g) = 1

(* C20 amended: close_details_pane uses the close affordance when one is   *)
(* present and visible and clicks outside the surface only when there is   *)
(* none; if that gesture fails or the surface is not removed as a result   *)
(* it sends Escape; each gesture that did not fail is followed by a wait   *)
(* for the removal of all detail surfaces, and no later gesture is issued  *)
(* once removal has been observed.                                         *)
C20_CloseOrder ==
    (call # NoCall /\ call.path = "success") =>
        LET g == Gestures(call.closing)
            first == IF env.closeBtn = "visible" THEN <<"click_close_button">>
                     ELSE IF env.closeBtn = "absent" THEN <<"click_outside">>
                     ELSE <<>>
        IN  /\ call.closing[1] = "query_close_button"
            /\ g = IF FirstStageFails(env) THEN Append(first, "press_escape")
                    ELSE first
            /\ WaitFollows(call.closing, env)
            /\ ~FirstStageFails(env) =>
                  /\ call.removed
                  /\ call.closing[Len(call.closing)] = "wait_all_removed"

(* No close button: a click outside, whose wait timed out, then Escape,    *)
(* whose wait saw the surface removed.                                     *)
C20_Witness ==
    /\ call # NoCall
    /\ call.path = "success"
    /\ call.closing = <<"query_close_button", "click_outside",
                        "wait_all_removed", "press_escape", "wait_all_removed">>
    /\ call.removed

-----------------------------------------------------------------------------
(* Properties of the two walks of one list (SpecPair).                     *)

IsPrefix(a, b) == Len(a) <= Len(b) /\ a = SubSeq(b, 1, Len(a))

DetailFieldsEmpty(rows) ==
    \A i \in 1 .. Len(rows) :
        rows[i].url = "" /\ rows[i].description = "" /\ rows[i].overview = ""

(* C12 as stated: with extract_details false every emitted row has empty   *)
(* url, description and overview, extract_row_details is never invoked,    *)
(* and the rows emitted are the same, in the same order, as with           *)
(* extract_details true on the same list.                                  *)
C12_SameRowsAsWithDetails ==
    pair.pc = "done" =>
        /\ DetailFieldsEmpty(pair.plain.rows)
        /\ pair.plain.calls = 0
        /\ RowIndices(pair.plain.rows) = RowIndices(pair.det.rows)

(* C12 amended: with extract_details false every emitted row has empty     *)
(* url, description and overview and extract_row_details is never invoked; *)
(* the rows emitted with extract_details true are, in order, a prefix of   *)
(* those emitted with extract_details false on the same list, and the same *)
(* rows when the walk with details ends by stabilization.                  *)
C12_DetailsOff ==
    pair.pc \in {"guard", "rows", "done"} =>
        /\ DetailFieldsEmpty(pair.plain.rows)
        /\ pair.plain.calls = 0
        /\ IsPrefix(RowIndices(pair.det.rows), RowIndices(pair.plain.rows))
        /\ pair.det.out = "stabilized" =>
              /\ pair.plain.out = "stabilized"
              /\ RowIndices(pair.plain.rows) = RowIndices(pair.det.rows)

(* Both walks stabilized with the same two rows; only the walk with        *)
(* details called extract_row_details and filled a description.            *)
C12_Witness ==
    /\ pair.pc = "done"
    /\ pair.plain.out = "stabilized" /\ pair.det.out = "stabilized"
    /\ Len(pair.plain.rows) = 2
    /\ pair.plain.calls = 0
    /\ pair.det.calls > 2
    /\ pair.det.rows[1].description # ""

-----------------------------------------------------------------------------
(* Properties of the two views walked in one run (SpecViews).              *)

SeqRange(q) == { q[i] : i \in 1 .. Len(q) }

-----------------------------------------------------------------------------
(* Properties of one scrape_tab invocation (SpecTab).                      *)

(* click_tab does not get the tab selected: no tab of the name, or an      *)
(* exception while counting, waiting or clicking (forced click included).  *)
TabNotSelected(e) ==
    \/ e.count \in {"none", "raise"}
    \/ e.visible = "raise"
    \/ e.click = "raise" /\ e.forceClick = "raise"
    \/ e.delay = "raise"

CountOf(calls, name) == Len(SelectSeq(calls, LAMBDA c : c = name))

(* C16  Tab not found: if click_tab fails, scrape_tab returns None without *)
(* raising, and neither the date filter nor the list walk is attempted.    *)
C16_TabNotFound ==
    (run.pc = "returned" /\ TabNotSelected(run.env)) =>
        /\ ~run.result.raised
        /\ run.result.ret.kind = "None"
        /\ run.result.calls = <<"click_tab">>

(* The normal click and the forced click both failed on a tab that exists, *)
(* with a date filter configured: None, and only click_tab was called.     *)
C16_Witness ==
    /\ run.pc = "returned"
    /\ run.env.count = "some" /\ run.env.visible = "ok"
    /\ run.env.click = "raise" /\ run.env.forceClick = "raise"
    /\ run.env.dateFilter
    /\ run.result.ret.kind = "None"
    /\ ~run.result.raised

(* C17  Filter failure is non-fatal: whenever the tab was selected, the     *)
(* list walk is performed exactly once, after the filter attempt if a date *)
(* filter is configured, and what the walk returns is what scrape_tab      *)
(* returns, whether set_date_range_filter succeeded or failed at any step; *)
(* set_date_range_filter is attempted once exactly when a filter is        *)
(* configured and never raises.                                            *)
C17_FilterNonFatal ==
    (run.pc = "returned" /\ ~TabNotSelected(run.env)) =>
        /\ CountOf(run.result.calls, "scrape_details_list") = 1
        /\ run.result.calls[Len(run.result.calls)] = "scrape_details_list"
        /\ CountOf(run.result.calls, "set_date_range_filter")
              = (IF run.env.dateFilter THEN 1 ELSE 0)
        /\ run.env.walk.kind = "rows" =>
              /\ ~run.result.raised
              /\ run.result.ret = run.env.walk

(* The radio option never became visible; the walk ran and its row was     *)
(* returned.                                                               *)
C17_Witness ==
    /\ run.pc = "returned"
    /\ ~TabNotSelected(run.env)
    /\ run.env.dateFilter
    /\ run.env.filterFail = "radio_wait"
    /\ run.result.calls = <<"click_tab", "set_date_range_filter",
                            "scrape_details_list">>
    /\ run.result.ret.kind = "rows"
    /\ Len(run.result.ret.rows) = 1

-----------------------------------------------------------------------------
(* Properties of one run (SpecRun).                                        *)

(* C18  View independence: when the roadmap scrape aborts or is            *)
(* unavailable (tab not found, or a failure propagating out of the roadmap *)
(* walk), the run has no roadmap data and has still attempted the sibling  *)
(* views, change announcements and what's-new, by the time it ends.        *)
C18_ViewIndependence ==
    ( /\ run.pc = "exited"
      /\ "roadmap" \in run.attempted
      /\ run.roadmap = NoData )
        => {"changeAnnouncements", "whatsNew"} \subseteq run.attempted

(* C19  Run exit status: the run ends with a non-zero exit only when the   *)
(* portal's embedded frame is unavailable; after any other failure it ends *)
(* with exit status zero.                                                  *)
C19_ExitStatus ==
    run.pc = "exited" =>
        (run.code # 0 <=> run.cause = "frame_unavailable")

-----------------------------------------------------------------------------
(* C21: a rendered row whose index is None, or is already in seen_indices  *)
(* when the row is iterated, has no effect: processed_rows, seen_indices,  *)
(* new_rows_found and idle_passes stay as they are, no extraction starts   *)
(* (cur, elapsed and the position are unchanged), and the loop moves on    *)
(* to the next rendered row.                                               *)
C21_SkippedRowsNoEffect ==
    [][ ( /\ pc = "rows" /\ remaining > 0 /\ pc' # "done"
          /\ (ghost'.lastRead = None \/ ghost'.lastRead \in seen_indices) )
        => ( /\ UNCHANGED <<processed_rows, seen_indices, new_rows_found,
                            idle_passes, cur, elapsed, pc>>
             /\ remaining' = remaining - 1
             /\ ghost'.seenOrder = ghost.seenOrder ) ]_vars

(* A pass that appended nothing skipped a row with a seen index and then a *)
(* row without index; the seen set is still the set of the appended rows.  *)
C21_Witness ==
    /\ pc = "rows"
    /\ ghost.dupSkipped
    /\ ghost.lastRead = None
    /\ ~new_rows_found
    /\ processed_rows # <<>>
    /\ seen_indices = SeqRange(RowIndices(processed_rows))

-----------------------------------------------------------------------------
(* The selection control as a toggle: its state after a number of clicks.  *)
SelectedAfter(initially, clicks) ==
    IF clicks % 2 = 0 THEN initially ELSE ~initially

(* C22: whenever open_details_pane returned, it clicked the row's          *)
(* selection control twice if aria-checked was 'true' and once otherwise,  *)
(* so a control that toggles on each click is selected afterwards,         *)
(* whatever its state before the call (first attempt or retry).            *)
C22_FreshSelection ==
    (call # NoCall /\ call.opened) =>
        /\ CountOf(call.events, "click_checkbox") = (IF env.checked THEN 2 ELSE 1)
        /\ SelectedAfter(env.checked, CountOf(call.events, "click_checkbox"))

(* The control was selected before the call, the pane opened and the       *)
(* invocation went on to read the detail surface.                          *)
C22_Witness ==
    /\ call # NoCall
    /\ call.opened
    /\ env.checked
    /\ call.path = "success"
    /\ CountOf(call.events, "click_checkbox") = 2

-----------------------------------------------------------------------------
(* find_correct_iframe (browser_helpers.py l.346-396), one invocation      *)
(* under every behaviour of the page.  A candidate is one element the      *)
(* DETAILS_IFRAME locator lists (l.361), in document order:                *)
(*   attach    iframe.wait_for(state='attached') (l.365): "ok" | "raise"   *)
(*   frame     content_frame() is a frame (l.368-371)                      *)
(*   dots      the wait for the progress dots (l.374-379)                  *)
(*   load      wait_for_load_state (l.381)                                 *)
(*   headings  h3 elements with the row title (l.385-386): "none",         *)
(*             "some", or "raise" when count() fails                       *)

MaxFrames == 2           \* detail surfaces the page holds at once

Candidates ==
    [ attach   : {"ok", "raise"},
      frame    : BOOLEAN,
      dots     : {"hidden", "raise"},
      load     : {"ok", "raise"},
      headings : {"none", "some", "raise"} ]

CandidateLists ==
    UNION { [1 .. n -> Candidates] : n \in 0 .. MaxFrames }

FrameEnv ==
    [ listing   : {"ok", "raise"},
      row_title : {"", "t"},
      frames    : CandidateLists ]

(* Variant: the first accessible surface is returned without looking at    *)
(* its heading.                                                            *)
VisitFrameAnyHeading(c, row_title) ==
    IF c.attach = "raise" THEN "continue"
    ELSE IF ~c.frame THEN "continue"
    ELSE IF c.load = "raise" THEN "continue"
    ELSE "return"

(* l.364-393: the body of the loop for one candidate.  A failing wait for  *)
(* the progress dots is ignored (l.377-379); any other exception, and a    *)
(* missing content frame, moves on to the next candidate.                  *)
VisitFrame(c, row_title) ==
    IF c.attach = "raise" THEN "continue"
    ELSE IF ~c.frame THEN "continue"
    ELSE IF c.load = "raise" THEN "continue"
    ELSE IF row_title # ""
        THEN (IF c.headings = "some" THEN "return" ELSE "continue")
    ELSE "return"

(* l.363-396: the position of the frame returned, or None.                 *)
RECURSIVE FindFrom(_, _, _)
FindFrom(frames, i, row_title) ==
    IF i > Len(frames) THEN None
    ELSE IF VisitFrame(frames[i], row_title) = "return" THEN i
    ELSE FindFrom(frames, i + 1, row_title)

(* l.358-396: the listing of l.361 is outside the try of the loop.         *)
FindCorrectIframe(e) ==
    IF e.listing = "raise" THEN [ret |-> None, raised |-> TRUE]
    ELSE [ret |-> FindFrom(e.frames, 1, e.row_title), raised |-> FALSE]

InvokeFindCorrectIframe ==
    /\ run.pc = "call"
    /\ run' = [pc |-> "returned", env |-> run.env,
               result |-> FindCorrectIframe(run.env)]
    /\ UNCHANGED <<env, call, pair>>
    /\ UNCHANGED walkVars

InitFrames ==
    /\ InitWalk
    /\ scrollTop = 0
    /\ extract_details
    /\ env = NoEnv
    /\ call = NoCall
    /\ pair = NoPair
    /\ \E e \in FrameEnv : run = [pc |-> "call", env |-> e]

NextFrames == InvokeFindCorrectIframe

SpecFrames == InitFrames /\ [][NextFrames]_vars

(* A candidate whose frame can be reached and loaded.                      *)
Accessible(c) == c.attach = "ok" /\ c.frame /\ c.load = "ok"

(* A candidate the search may return for this title.                       *)
Eligible(c, row_title) ==
    Accessible(c) /\ (row_title = "" \/ c.headings = "some")

(* C23: once the candidates are listed, find_correct_iframe does not       *)
(* raise; it returns the first candidate in document order that is         *)
(* accessible and whose heading matches row_title (the first accessible    *)
(* one when row_title is empty), passing over candidates that raise or     *)
(* have no frame, and returns None when there is no such candidate.        *)
C23_SurfaceSelection ==
    (run.pc = "returned" /\ run.env.listing = "ok") =>
        LET fs == run.env.frames
            t  == run.env.row_title
            ok == { i \in 1 .. Len(fs) : Eligible(fs[i], t) }
        IN  /\ ~run.result.raised
            /\ ok = {} => run.result.ret = None
            /\ ok # {} => /\ run.result.ret \in ok
                          /\ \A i \in ok : run.result.ret <= i

(* The first candidate raised, and the second, matching one was returned.  *)
C23_Witness ==
    /\ run.pc = "returned"
    /\ run.env.listing = "ok"
    /\ run.env.row_title = "t"
    /\ Len(run.env.frames) = 2
    /\ run.env.frames[1].attach = "raise"
    /\ run.env.frames[2].dots = "raise"
    /\ run.result.ret = 2

-----------------------------------------------------------------------------
(* scrape_details_list over a static list (l.517-656): N rows of equal     *)
(* height in a container of fixed client height; the list renders the rows *)
(* that intersect the viewport.  The configuration values are inputs of    *)
(* the walk, and the clock belongs to the environment: the guard of l.556  *)
(* may fire at the start of any pass.  No details are extracted.           *)
(*   run.N, run.h, run.W   rows, row height and client height (px)         *)
(*   run.step, run.maxIdle scrollStepPx and maxIdlePasses                  *)
(*   run.top               container.scrollTop                             *)
(*   run.rows, run.seen, run.idle   processed_rows, seen_indices,          *)
(*                                  idle_passes                            *)
(*   run.passes            passes made                                     *)

MaxRows == 3             \* rows of the static list: 0 .. MaxRows
MaxRowPx == 3            \* largest row height
MaxWindowPx == 3         \* largest client height of the container

PassCap == MaxRows * MaxRowPx + MaxIdlePasses + 2

Max(a, b) == IF a > b THEN a ELSE b

(* l.629 and l.647: Math.max(0, scrollHeight - clientHeight)               *)
ContainerMaxScroll(s) == Max(0, s.N * s.h - s.W)

(* l.561: the rows in the DOM at scrollTop t, those that intersect the     *)
(* viewport [t, t + W).                                                    *)
RenderedAt(s, t) ==
    { k \in 0 .. (s.N - 1) : k * s.h < t + s.W /\ (k + 1) * s.h > t }

(* Variant: the idle threshold alone stops the walk.                       *)
ShouldStopAtIdleOnly(atBottom, idle, maxIdlePasses) == idle >= maxIdlePasses

(* l.635, for the configured maxIdlePasses                                 *)
ShouldStopAt(atBottom, idle, maxIdlePasses) ==
    atBottom /\ idle >= maxIdlePasses

(* Variant: the new position is not clamped to the maximum.                *)
ScrollDownByUnclamped(top, maxScroll, step) == top + step

(* l.647-648, for the configured scrollStepPx                              *)
ScrollDownBy(top, maxScroll, step) == Min(top + step, maxScroll)

(* l.564-614 without details: the rendered rows in document order, from    *)
(* index k on.                                                             *)
RECURSIVE WalkRows(_, _, _)
WalkRows(acc, visible, k) ==
    IF k >= MaxRows + 1 THEN acc
    ELSE IF k \notin visible \/ ShouldSkip(k, acc.seen)
        THEN WalkRows(acc, visible, k + 1)
    ELSE WalkRows([ rows  |-> AppendRow(acc.rows, RowObject(k, EmptyDetails)),
                    seen  |-> acc.seen \cup {k},
                    found |-> TRUE ], visible, k + 1)

StaticLists ==
    [ N : 0 .. MaxRows, h : 1 .. MaxRowPx, W : 1 .. MaxWindowPx,
      step : 0 .. ScrollStepPx, maxIdle : 0 .. MaxIdlePasses ]

(* l.533-552: fresh accumulators, scroll to top.                           *)
StaticStart ==
    /\ run.pc = "start"
    /\ run' = [run EXCEPT !.pc = "loop", !.top = 0, !.rows = <<>>,
                          !.seen = {}, !.idle = 0]
    /\ UNCHANGED <<env, call, pair>>
    /\ UNCHANGED walkVars

(* l.554-558: the guard fires; l.656 returns what has accumulated.         *)
StaticTimeout ==
    /\ run.pc = "loop"
    /\ run' = [run EXCEPT !.pc = "done", !.outcome = "timeout"]
    /\ UNCHANGED <<env, call, pair>>
    /\ UNCHANGED walkVars

(* l.560-653: one pass, ended by the stop of l.635-637 or by the scroll    *)
(* of l.640-651.                                                           *)
StaticPass ==
    /\ run.pc = "loop"
    /\ run.passes < PassCap
    /\ LET a    == WalkRows([rows |-> run.rows, seen |-> run.seen,
                             found |-> FALSE],
                            RenderedAt(run, run.top), 0)
           idle == NextIdle(a.found, run.idle)
           m    == ContainerMaxScroll(run)
           stop == ShouldStopAt(AtBottom(run.top, m), idle, run.maxIdle)
       IN  run' = [run EXCEPT
                     !.rows    = a.rows,
                     !.seen    = a.seen,
                     !.idle    = idle,
                     !.passes  = @ + 1,
                     !.pc      = IF stop THEN "done" ELSE "loop",
                     !.outcome = IF stop THEN "stabilized" ELSE @,
                     !.top     = IF stop THEN @
                                 ELSE ScrollDownBy(@, m, run.step)]
    /\ UNCHANGED <<env, call, pair>>
    /\ UNCHANGED walkVars

InitStatic ==
    /\ InitWalk
    /\ scrollTop = 0
    /\ ~extract_details
    /\ env = NoEnv
    /\ call = NoCall
    /\ pair = NoPair
    /\ \E l \in StaticLists, t \in 0 .. MaxScrollPx :
          /\ t <= ContainerMaxScroll(l)
          /\ run = [ pc |-> "start", N |-> l.N, h |-> l.h, W |-> l.W,
                     step |-> l.step, maxIdle |-> l.maxIdle, top |-> t,
                     rows |-> <<>>, seen |-> {}, idle |-> 0, passes |-> 0,
                     outcome |-> "running" ]

NextStatic ==
    \/ StaticStart
    \/ StaticTimeout
    \/ StaticPass

SpecStatic == InitStatic /\ [][NextStatic]_vars

(* C24: every scroll advance of a walk sets the position to                *)
(* min(previous + scrollStepPx, maxScroll); in a container of fixed height *)
(* the position therefore never exceeds the maximum and never decreases    *)
(* once the walk has started, and it is set back to 0 only by the reset at *)
(* walk start, which happens once.                                         *)
C24_ScrollClamped ==
    [][ /\ (run.pc = "loop" /\ run'.pc = "loop") =>
               run'.top = Min(run.top + run.step, ContainerMaxScroll(run))
        /\ run.pc # "start" =>
               /\ run'.top >= run.top
               /\ run'.top <= ContainerMaxScroll(run)
        /\ run'.top < run.top => (run.pc = "start" /\ run'.top = 0)
        /\ run'.pc # "start" ]_vars

(* The walk has advanced more than once and the last advance was cut short *)
(* by the maximum.                                                         *)
C24_Witness ==
    /\ run.pc = "loop"
    /\ run.passes >= 2
    /\ run.step > 0
    /\ run.top = ContainerMaxScroll(run)
    /\ run.top % run.step # 0

(* The claim's case: a positive step no larger than the viewport.          *)
StepWithinWindow(s) == s.step >= 1 /\ s.step <= s.W

(* Passes a walk of the static list needs at most: one per position from   *)
(* 0 to the maximum, and maxIdlePasses idle ones.                          *)
PassBound(s) ==
    (ContainerMaxScroll(s) + s.step - 1) \div s.step + 1 + s.maxIdle

(* Every index 0..N-1 is emitted, each once.                               *)
EmitsAll(s) ==
    /\ Len(s.rows) = s.N
    /\ SeqRange(RowIndices(s.rows)) = 0 .. (s.N - 1)

(* The stabilized stop comes within PassBound passes.                      *)
StopsInTime(s) ==
    /\ s.passes <= PassBound(s)
    /\ s.pc = "loop" => s.passes < PassBound(s)

(* C25 as stated: on a static list whose rendered rows are a contiguous    *)
(* window, with a positive scroll step no larger than the window, a walk   *)
(* that ends by stabilization has emitted every index 0..N-1 exactly once, *)
(* and the stabilized stop is reached after finitely many passes.          *)
C25_StaticComplete ==
    (run.pc # "start" /\ StepWithinWindow(run)) =>
        /\ StopsInTime(run)
        /\ run.outcome = "stabilized" => EmitsAll(run)

(* C25, amended: the same for lists whose rows are taller than the bottom  *)
(* tolerance of l.630.                                                     *)
C25_StaticCompleteTallRows ==
    (run.pc # "start" /\ StepWithinWindow(run) /\ run.h > BottomTolerancePx) =>
        /\ StopsInTime(run)
        /\ run.outcome = "stabilized" => EmitsAll(run)

(* A list of several rows taller than the tolerance, walked in more than   *)
(* one position and emitted whole.                                         *)
C25_Witness ==
    /\ run.outcome = "stabilized"
    /\ StepWithinWindow(run)
    /\ run.h > BottomTolerancePx
    /\ run.N >= 2
    /\ run.top > 0
    /\ run.maxIdle >= 1
    /\ EmitsAll(run)

-----------------------------------------------------------------------------
(* The retry loop of scrape_details_list for one row (l.595-614), every    *)
(* attempt returning whatever extract_row_details can return.              *)
(*   run.details  the local details (l.595, l.599)                         *)
(*   run.attempt  the loop variable                                        *)
(*   run.made     the mappings the attempts returned, in order             *)
(*   run.obj      the row object after l.610-612                           *)

(* Variant: a field an earlier attempt filled survives an attempt that     *)
(* returned it empty.                                                      *)
AssignDetailsMerging(old, new) ==
    [ url         |-> IF new.url # "" THEN new.url ELSE old.url,
      description |-> IF new.description # "" THEN new.description
                                              ELSE old.description,
      overview    |-> IF new.overview # "" THEN new.overview ELSE old.overview ]

(* l.599: details = await extract_row_details(...) rebinds the local.      *)
AssignDetails(old, new) == new

(* l.595-598: the defaults; range(1, maxRetryAttempts + 1) may be empty.   *)
RetryStart ==
    /\ run.pc = "row"
    /\ run' = [run EXCEPT !.details = EmptyDetails,
                          !.attempt = 1,
                          !.pc = IF MaxRetryAttempts >= 1 THEN "loop" ELSE "copy"]
    /\ UNCHANGED <<env, call, pair>>
    /\ UNCHANGED walkVars

(* l.599-608: one attempt; the loop ends on a description or after         *)
(* maxRetryAttempts attempts.                                              *)
RetryAttempt ==
    /\ run.pc = "loop"
    /\ \E o \in DetailOutcomes :
          LET d == AssignDetails(run.details, o.ret)
          IN  run' = [run EXCEPT
                        !.details = d,
                        !.made    = Append(@, o.ret),
                        !.attempt = IF RetryDone(d, run.attempt) THEN @ ELSE @ + 1,
                        !.pc      = IF RetryDone(d, run.attempt) THEN "copy"
                                                                 ELSE "loop"]
    /\ UNCHANGED <<env, call, pair>>
    /\ UNCHANGED walkVars

(* l.610-614: the detail fields are copied into the row object.            *)
RetryCopy ==
    /\ run.pc = "copy"
    /\ run' = [run EXCEPT !.obj = RowObject(run.index, run.details),
                          !.pc = "done"]
    /\ UNCHANGED <<env, call, pair>>
    /\ UNCHANGED walkVars

InitRetry ==
    /\ InitWalk
    /\ scrollTop = 0
    /\ extract_details
    /\ env = NoEnv
    /\ call = NoCall
    /\ pair = NoPair
    /\ \E i \in Indices :
          run = [ pc |-> "row", index |-> i, details |-> EmptyDetails,
                  attempt |-> 0, made |-> <<>>, obj |-> NoRow ]

NextRetry ==
    \/ RetryStart
    \/ RetryAttempt
    \/ RetryCopy

SpecRetry == InitRetry /\ [][NextRetry]_vars

(* The detail fields of a row object are those of the mapping d.           *)
SameDetails(obj, d) ==
    /\ obj.url = d.url
    /\ obj.description = d.description
    /\ obj.overview = d.overview

(* C26: the url, description and overview of an appended row are those of  *)
(* the last attempt made.  An attempt with a non-empty description is the  *)
(* last one; when every attempt returned an empty description, all         *)
(* maxRetryAttempts were made and the row carries the url and overview of  *)
(* the final one, whatever earlier attempts had returned.                  *)
C26_LastAttemptWins ==
    (run.pc = "done" /\ run.made # <<>>) =>
        LET n == Len(run.made)
        IN  /\ SameDetails(run.obj, run.made[n])
            /\ \A i \in 1 .. n : run.made[i].description # "" => i = n
            /\ (\A i \in 1 .. n : run.made[i].description = "")
                   => n = MaxRetryAttempts

(* An earlier attempt returned a url and an overview without description;  *)
(* the final attempt returned nothing, and the row has neither.            *)
C26_Witness ==
    /\ run.pc = "done"
    /\ Len(run.made) = MaxRetryAttempts
    /\ Len(run.made) >= 2
    /\ run.made[1].url # ""
    /\ run.made[1].overview # ""
    /\ \A i \in 1 .. Len(run.made) : run.made[i].description = ""
    /\ run.made[Len(run.made)] = EmptyDetails
    /\ run.obj.url = ""
    /\ run.obj.overview = ""

-----------------------------------------------------------------------------
(* scrape_entra_portal (scraper.py l.247-328), step by step.               *)
(*   run.context  "none" | "open" | "closed": the persistent context       *)
(*   run.closes   calls of context.close() (l.327)                         *)
(*   run.pending  what the finally clause was entered with: "return" or    *)
(*                the exception in flight                                  *)
(*   run.raised   an exception left the function                           *)
(*   run.date_filter   the argument is not None                            *)
(*   run.roadmapDetails, run.changeDetails   extractDetails of the two     *)
(*                lists (l.315, l.319)                                     *)

InitPortalState ==
    [ pc |-> "launch", context |-> "none", closes |-> 0, pending |-> "none",
      raised |-> FALSE, roadmap |-> NoData, changeAnnouncements |-> NoData,
      date_filter |-> FALSE, roadmapDetails |-> TRUE, changeDetails |-> TRUE ]

(* What scrape_tab gives scrape_entra_portal, with and without a date      *)
(* filter.                                                                 *)
TabOutcomesFor ==
    [ d \in BOOLEAN |->
        { [ret |-> ScrapeTab(e).ret, raised |-> ScrapeTab(e).raised] :
              e \in { x \in TabEnv : x.dateFilter = d } } ]

(* Variant: the close is the last statement of the try body instead of a   *)
(* finally clause, so an exception passes it by.                           *)
UnwindPastClose(r, cause) ==
    [r EXCEPT !.pc = "exited", !.pending = cause, !.raised = TRUE]

(* l.283-326: an exception raised inside the try enters the finally.       *)
Unwind(r, cause) == [r EXCEPT !.pc = "finally", !.pending = cause]

(* l.262-281: launch_persistent_context, before the try.                   *)
PortalLaunch ==
    /\ run.pc = "launch"
    /\ \E launch \in {"ok", "raise"} :
          run' = IF launch = "raise"
                     THEN [run EXCEPT !.pc = "exited", !.pending = "launch",
                                      !.raised = TRUE]
                 ELSE [run EXCEPT !.pc = "goto", !.context = "open"]
    /\ UNCHANGED <<env, call, pair>>
    /\ UNCHANGED walkVars

(* l.284-287: the page and the navigation.                                 *)
PortalGoto ==
    /\ run.pc = "goto"
    /\ \E goto \in {"ok", "raise"} :
          run' = IF goto = "raise" THEN Unwind(run, "navigation")
                 ELSE [run EXCEPT !.pc = "iframe"]
    /\ UNCHANGED <<env, call, pair>>
    /\ UNCHANGED walkVars

(* l.290-297: the ReactView iframe and its content frame.                  *)
PortalFrame ==
    /\ run.pc = "iframe"
    /\ \E frame \in {"frame", "wait_timeout", "no_content"} :
          run' = CASE frame = "wait_timeout" -> Unwind(run, "iframe_wait")
                   [] frame = "no_content"   -> Unwind(run, "frame_unavailable")
                   [] frame = "frame"        -> [run EXCEPT !.pc = "splash"]
    /\ UNCHANGED <<env, call, pair>>
    /\ UNCHANGED walkVars

(* l.299-312: splash screen (its get_timeouts is outside its try),         *)
(* progress dots (contained, l.303-308), list configuration.               *)
PortalSplash ==
    /\ run.pc = "splash"
    /\ \E splash \in {"ok", "raise"} :
          run' = IF splash = "raise" THEN Unwind(run, "splash")
                 ELSE [run EXCEPT !.pc = "roadmap"]
    /\ UNCHANGED <<env, call, pair>>
    /\ UNCHANGED walkVars

(* l.315-316 *)
PortalRoadmap ==
    /\ run.pc = "roadmap"
    /\ \E o \in TabOutcomesFor[run.date_filter] :
          run' = IF o.raised THEN Unwind(run, "roadmap_scrape")
                 ELSE [run EXCEPT !.pc = "change_announcements",
                                  !.roadmap = o.ret]
    /\ UNCHANGED <<env, call, pair>>
    /\ UNCHANGED walkVars

(* l.319-325: the second view and the return statement.                    *)
PortalChangeAnnouncements ==
    /\ run.pc = "change_announcements"
    /\ \E o \in TabOutcomesFor[run.date_filter] :
          run' = IF o.raised THEN Unwind(run, "change_announcements_scrape")
                 ELSE [run EXCEPT !.pc = "finally", !.pending = "return",
                                  !.changeAnnouncements = o.ret]
    /\ UNCHANGED <<env, call, pair>>
    /\ UNCHANGED walkVars

(* l.326-328: context.close(); an exception of the close replaces what was *)
(* pending.                                                                *)
PortalFinally ==
    /\ run.pc = "finally"
    /\ \E close \in {"ok", "raise"} :
          run' = [run EXCEPT !.pc = "exited",
                             !.context = "closed",
                             !.closes = @ + 1,
                             !.raised = run.pending # "return" \/ close = "raise"]
    /\ UNCHANGED <<env, call, pair>>
    /\ UNCHANGED walkVars

InitPortal ==
    /\ InitWalk
    /\ scrollTop = 0
    /\ extract_details
    /\ env = NoEnv
    /\ call = NoCall
    /\ pair = NoPair
    /\ \E d \in BOOLEAN, r \in BOOLEAN, c \in BOOLEAN :
          run = [InitPortalState EXCEPT !.date_filter = d,
                                        !.roadmapDetails = r,
                                        !.changeDetails = c]

NextPortal ==
    \/ PortalLaunch
    \/ PortalGoto
    \/ PortalFrame
    \/ PortalSplash
    \/ PortalRoadmap
    \/ PortalChangeAnnouncements
    \/ PortalFinally

SpecPortal == InitPortal /\ [][NextPortal]_vars

(* C27: once launch_persistent_context has returned, scrape_entra_portal   *)
(* closes the context exactly once on every way out: it is open and not    *)
(* yet closed while the function runs, and closed by one call when the     *)
(* function has returned or raised.                                        *)
C27_ContextClosedOnce ==
    /\ run.closes <= 1
    /\ (run.pc \notin {"launch", "exited"}) =>
           (run.context = "open" /\ run.closes = 0)
    /\ (run.pc = "exited" /\ run.pending # "launch") =>
           (run.context = "closed" /\ run.closes = 1)

(* The frame-unavailable RuntimeError left the function and the context    *)
(* was closed.                                                             *)
C27_Witness ==
    /\ run.pc = "exited"
    /\ run.pending = "frame_unavailable"
    /\ run.raised
    /\ run.closes = 1

-----------------------------------------------------------------------------
(* insert_into_sharepoint_list (sharepoint.py l.245-334) called twice with *)
(* the same data against one remote list.  The remote list holds what      *)
(* create_list_item has created; Graph calls may fail.                     *)
(*   run.data       the items, each with the mapped Title and date value   *)
(*   run.configured sharepoint_config and access_token are truthy (l.260)  *)
(*   run.mapping    the configuration has a mapping for the list (l.227)   *)
(*   run.dateCheck  date_field is set and is a key of the mapped fields    *)
(*                  (l.307)                                                *)
(*   run.round      1 for the first call, 2 for the second                 *)
(*   run.i          position of the loop of l.298 (1-based)                *)
(*   run.remote     the remote list: the fields of the items created       *)
(*   run.success, run.error, run.skipped   the counters of l.294-296       *)
(*   run.log        per processed item: round, position, what item_exists  *)
(*                  returned, how its query went, and the outcome          *)

MaxItems == 2            \* items in one batch

Items == [title : {"", "a"}, date : {"", "1"}]

Batches == UNION { [1 .. n -> Items] : n \in 0 .. MaxItems }

(* Variant: the filter names a field no item has, so the query succeeds    *)
(* and matches nothing.                                                    *)
ItemExistsWrongField(remote, title, date_value, query) ==
    IF title = "" \/ date_value = "" THEN [exists |-> FALSE, query |-> "none"]
    ELSE IF query = "fail" THEN [exists |-> FALSE, query |-> "failed"]
    ELSE [exists |-> FALSE, query |-> "ok"]

(* item_exists (l.137-179): no query for an empty title or date (l.159);   *)
(* a failed query counts as 'does not exist' (l.176-179).                  *)
ItemExists(remote, title, date_value, query) ==
    IF title = "" \/ date_value = "" THEN [exists |-> FALSE, query |-> "none"]
    ELSE IF query = "fail" THEN [exists |-> FALSE, query |-> "failed"]
    ELSE [ exists |-> \E k \in 1 .. Len(remote) :
                          remote[k].Title = title /\ remote[k].date = date_value,
           query  |-> "ok" ]

(* One more entry of the log.                                              *)
Logged(r, x, result) ==
    Append(r.log, [ round |-> r.round, i |-> r.i, exists |-> x.exists,
                    query |-> x.query, outcome |-> result ])

(* Variant: no try around the loop body, so the exception of one item ends *)
(* the loop in the outer handler.                                          *)
ItemErrorAborts(r, x) ==
    [r EXCEPT !.pc = "returned", !.log = Logged(r, x, "error")]

(* l.328-330: the exception of one item is counted and the loop goes on.   *)
ItemError(r, x) ==
    [r EXCEPT !.error = @ + 1, !.i = @ + 1, !.log = Logged(r, x, "error")]

(* l.299-330: the body of the loop for one item, for the answers query     *)
(* (of the existence query) and create (of the POST).                      *)
ProcessItem(r, query, create) ==
    LET item  == r.data[r.i]
        unset == [exists |-> FALSE, query |-> "none"]
        x     == IF r.dateCheck
                     THEN ItemExists(r.remote, item.title, item.date, query)
                     ELSE unset
    IN  IF ~r.mapping THEN ItemError(r, unset)
        ELSE IF r.dateCheck /\ x.exists
            THEN [r EXCEPT !.skipped = @ + 1, !.i = @ + 1,
                           !.log = Logged(r, x, "skipped")]
        ELSE IF create = "fail" THEN ItemError(r, x)
        ELSE [r EXCEPT !.success = @ + 1, !.i = @ + 1,
                       !.remote = Append(@, [Title |-> item.title,
                                             date  |-> item.date]),
                       !.log = Logged(r, x, "inserted")]

(* l.260-296: the guard, the identifiers, the list entry, the counters.    *)
InsertStart ==
    /\ run.pc = "start"
    /\ \E ids \in {"ok", "fail"} :
          run' = IF ~run.configured THEN [run EXCEPT !.pc = "returned"]
                 ELSE IF ids = "fail" THEN [run EXCEPT !.pc = "returned"]
                 ELSE [run EXCEPT !.pc = "items", !.resolved = TRUE, !.i = 1,
                                  !.success = 0, !.error = 0, !.skipped = 0]
    /\ UNCHANGED <<env, call, pair>>
    /\ UNCHANGED walkVars

(* l.298-330 for the next item.                                            *)
InsertItem ==
    /\ run.pc = "items"
    /\ run.i <= Len(run.data)
    /\ \E query \in {"ok", "fail"}, create \in {"ok", "fail"} :
          run' = ProcessItem(run, query, create)
    /\ UNCHANGED <<env, call, pair>>
    /\ UNCHANGED walkVars

(* l.332: the loop is over, the totals are printed, the function returns.  *)
InsertFinish ==
    /\ run.pc = "items"
    /\ run.i > Len(run.data)
    /\ run' = [run EXCEPT !.pc = "returned"]
    /\ UNCHANGED <<env, call, pair>>
    /\ UNCHANGED walkVars

(* The same data is inserted a second time.                                *)
InsertAgain ==
    /\ run.pc = "returned"
    /\ run.round = 1
    /\ run' = [run EXCEPT !.pc = "start", !.round = 2, !.resolved = FALSE]
    /\ UNCHANGED <<env, call, pair>>
    /\ UNCHANGED walkVars

InitInsert ==
    /\ InitWalk
    /\ scrollTop = 0
    /\ extract_details
    /\ env = NoEnv
    /\ call = NoCall
    /\ pair = NoPair
    /\ \E d \in Batches, c \in BOOLEAN, m \in BOOLEAN, f \in BOOLEAN :
          run = [ pc |-> "start", data |-> d, configured |-> c, mapping |-> m,
                  dateCheck |-> f, round |-> 1, i |-> 0, resolved |-> FALSE,
                  remote |-> <<>>, success |-> 0, error |-> 0, skipped |-> 0,
                  log |-> <<>> ]

NextInsert ==
    \/ InsertStart
    \/ InsertItem
    \/ InsertFinish
    \/ InsertAgain

SpecInsert == InitInsert /\ [][NextInsert]_vars

(* Properties of insert_into_sharepoint_list (SpecInsert).                 *)

Keyed(item) == item.title # "" /\ item.date # ""

LogIndices == 1 .. Len(run.log)

(* Entries j and k of the log are of one call and of items with the same   *)
(* non-empty Title and date, j before k.                                   *)
SameKeyInBatch(j, k) ==
    /\ j < k
    /\ run.log[j].round = run.log[k].round
    /\ run.data[run.log[j].i] = run.data[run.log[k].i]
    /\ Keyed(run.data[run.log[k].i])

(* The first call created the item at position i or found it present.      *)
FirstCallStored(i) ==
    \E j \in LogIndices :
        /\ run.log[j].round = 1
        /\ run.log[j].i = i
        /\ run.log[j].outcome \in {"inserted", "skipped"}

(* An item whose item_exists check returned true is never created.         *)
NoCreateWhenExists ==
    /\ \A k \in LogIndices : run.log[k].exists => run.log[k].outcome = "skipped"
    /\ Len(run.remote) =
           Cardinality({ k \in LogIndices : run.log[k].outcome = "inserted" })

ThisCall == { k \in LogIndices : run.log[k].round = run.round }

CountOutcome(result) ==
    Cardinality({ k \in ThisCall : run.log[k].outcome = result })

-----------------------------------------------------------------------------
(* The identifier caches of sharepoint.py (l.12-14, l.53-117, l.337-341)   *)
(* under any sequence of lookups and resets.                               *)
(*   run.site    _cached_site_id ("" for None)                             *)
(*   run.lists   _cached_list_ids, as a set of (title, id) entries         *)
(*   run.siteOk  successful remote site lookups since the last reset       *)
(*   run.listOk  titles looked up successfully at the remote since the     *)
(*               last reset, one entry per successful lookup               *)
(*   run.calls   calls made                                                *)
(*   run.last    the last call: op, arg, whether it went to the remote,    *)
(*               what it returned, whether it raised                       *)

MaxCalls == 4            \* lookups and resets in one behaviour

SiteUrls == {"u1", "u2"}
ListTitles == {"A", "B"}

(* The id Graph answers for a site url, and for a list of a site.          *)
SiteIdOf(site_url) == IF site_url = "u1" THEN "s1" ELSE "s2"
ListIdOf(site_id, list_title) == [site |-> site_id, title |-> list_title]

NoId == [site |-> "", title |-> ""]

CachedTitles(lists) == { e.title : e \in lists }

(* get_site_id_from_site_url (l.53-83) on the caches c, the remote giving  *)
(* answer: "ok", "no_id" (l.79-80) or "error" (graph_fetch raises).        *)
GetSiteIdFromSiteUrl(c, site_url, answer) ==
    IF c.site # ""
        THEN [site |-> c.site, ret |-> c.site, fetched |-> FALSE, raised |-> FALSE]
    ELSE IF answer = "ok"
        THEN [site |-> SiteIdOf(site_url), ret |-> SiteIdOf(site_url),
              fetched |-> TRUE, raised |-> FALSE]
    ELSE [site |-> c.site, ret |-> "", fetched |-> TRUE, raised |-> TRUE]

(* get_list_id_by_title (l.86-117): answer "ok", "no_match" (l.112-113)    *)
(* or "error".                                                             *)
GetListIdByTitle(c, site_id, list_title, answer) ==
    IF list_title \in CachedTitles(c.lists)
        THEN [lists |-> c.lists,
              ret |-> (CHOOSE e \in c.lists : e.title = list_title).id,
              fetched |-> FALSE, raised |-> FALSE]
    ELSE IF answer = "ok"
        THEN [lists |-> c.lists \cup {[title |-> list_title,
                                       id |-> ListIdOf(site_id, list_title)]},
              ret |-> ListIdOf(site_id, list_title),
              fetched |-> TRUE, raised |-> FALSE]
    ELSE [lists |-> c.lists, ret |-> NoId, fetched |-> TRUE, raised |-> TRUE]

(* Variant: without the global declaration the assignments bind locals and *)
(* the module-level caches stay as they are.                               *)
ResetCachesLocalOnly(c) == [site |-> c.site, lists |-> c.lists]

(* reset_caches (l.337-341) *)
ResetCaches(c) == [site |-> "", lists |-> {}]

GetSiteId ==
    /\ run.calls < MaxCalls
    /\ \E site_url \in SiteUrls, answer \in {"ok", "no_id", "error"} :
          LET r == GetSiteIdFromSiteUrl(run, site_url, answer)
          IN  run' = [run EXCEPT
                        !.site   = r.site,
                        !.siteOk = IF r.fetched /\ ~r.raised THEN @ + 1 ELSE @,
                        !.calls  = @ + 1,
                        !.last   = [op |-> "site", arg |-> site_url,
                                    fetched |-> r.fetched, raised |-> r.raised,
                                    ret |-> [site |-> r.ret, title |-> ""]]]
    /\ UNCHANGED <<env, call, pair>>
    /\ UNCHANGED walkVars

GetListId ==
    /\ run.calls < MaxCalls
    /\ \E site_id \in {"s1", "s2"}, list_title \in ListTitles,
          answer \in {"ok", "no_match", "error"} :
          LET r == GetListIdByTitle(run, site_id, list_title, answer)
          IN  run' = [run EXCEPT
                        !.lists  = r.lists,
                        !.listOk = IF r.fetched /\ ~r.raised
                                       THEN Append(@, list_title) ELSE @,
                        !.calls  = @ + 1,
                        !.last   = [op |-> "list", arg |-> list_title,
                                    fetched |-> r.fetched, raised |-> r.raised,
                                    ret |-> r.ret]]
    /\ UNCHANGED <<env, call, pair>>
    /\ UNCHANGED walkVars

CallResetCaches ==
    /\ run.calls < MaxCalls
    /\ LET r == ResetCaches(run)
       IN  run' = [run EXCEPT
                     !.site   = r.site,
                     !.lists  = r.lists,
                     !.siteOk = 0,
                     !.listOk = <<>>,
                     !.calls  = @ + 1,
                     !.last   = [op |-> "reset", arg |-> "", fetched |-> FALSE,
                                 raised |-> FALSE, ret |-> NoId]]
    /\ UNCHANGED <<env, call, pair>>
    /\ UNCHANGED walkVars

InitCache ==
    /\ InitWalk
    /\ scrollTop = 0
    /\ extract_details
    /\ env = NoEnv
    /\ call = NoCall
    /\ pair = NoPair
    /\ run = [ site |-> "", lists |-> {}, siteOk |-> 0, listOk |-> <<>>,
               calls |-> 0,
               last |-> [op |-> "none", arg |-> "", fetched |-> FALSE,
                         raised |-> FALSE, ret |-> NoId] ]

NextCache ==
    \/ GetSiteId
    \/ GetListId
    \/ CallResetCaches

SpecCache == InitCache /\ [][NextCache]_vars

(* C30: a lookup that finds its key cached returns the cached id without   *)
(* going to the remote, whatever site_url is passed; a lookup that does    *)
(* not find it goes to the remote; a failed lookup leaves the caches as    *)
(* they were; reset_caches empties both.  Between two resets the site id   *)
(* and each list title are therefore fetched successfully at most once.    *)
C30_CacheLifetime ==
    [][ /\ (run'.last.op = "site" /\ run.site # "") =>
               /\ ~run'.last.fetched
               /\ run'.last.ret.site = run.site
        /\ (run'.last.op = "site" /\ run.site = "") => run'.last.fetched
        /\ (run'.last.op = "list" /\ run'.last.arg \in CachedTitles(run.lists)) =>
               /\ ~run'.last.fetched
               /\ [title |-> run'.last.arg, id |-> run'.last.ret] \in run.lists
        /\ (run'.last.op = "list" /\ run'.last.arg \notin CachedTitles(run.lists))
               => run'.last.fetched
        /\ run'.last.raised => (run'.site = run.site /\ run'.lists = run.lists)
        /\ run'.last.op = "reset" => (run'.site = "" /\ run'.lists = {})
        /\ run'.siteOk <= 1
        /\ \A t \in ListTitles : CountOf(run'.listOk, t) <= 1 ]_vars

(* The site id cached for one url was returned for the other url, after a  *)
(* failed lookup and a successful one, without a fetch.                    *)
C30_Witness ==
    /\ run.last.op = "site"
    /\ run.last.arg = "u2"
    /\ ~run.last.fetched
    /\ run.last.ret.site = "s1"
    /\ run.site = "s1"
    /\ run.siteOk = 1
    /\ run.calls >= 3

=============================================================================
